---- MODULE Spec2Model ----
(***************************************************************************)
(* A model of R-JSONEventParser: the byte source (byte_source.rs), the     *)
(* lexer (json_lexer.rs) and the lexer-to-parser adapter (json_parser.rs). *)
(*                                                                         *)
(* Bytes are integers 0..255.  Text (String) is its UTF-8 byte sequence.   *)
(* Option<T> is a sequence of length at most one: <<>> is None, <<x>> is   *)
(* Some(x).                                                                *)
(***************************************************************************)
EXTENDS Integers, Sequences, FiniteSets, TLC

VARIABLES
    mode,         \* who consumes the lexer's events: "lex" (a JSONLexConsumer of
                  \* the caller), "parse" (JSONLexerToParser in front of a
                  \* JSONParseConsumer), "xml" (JSONLexerToParser in front of
                  \* a JSON2XMLConsumer), "bs" (the byte source driven alone),
                  \* "sink" (a JSON2XMLConsumer driven alone)
    alpha,        \* which set of chunks the underlying reader draws from
    source,       \* the underlying reader R: what it has produced so far
    byte_source,  \* ByteSource fields: unget_byte, buffer, i, limit
    bsLog,        \* the last two operations performed on the byte source
    lexer,        \* JSONLexer fields: line, column, ignore_unicode_errs
    locals,       \* the local variables of JSONLexer::lex
    pc,           \* position inside lex: "new", "loop", "endfile", "returned"
    result,       \* value returned by lex / parse: "None" (running), "Ok", "Err", "Panic"
    adapter,      \* JSONLexerToParser fields: state, states
    lexOut,       \* every event the lexer handed to its consumer, in order
    parOut,       \* every event the adapter handed to the parser consumer
    adapterTrace, \* the adapter's state at each call of its consume, in order
    aborted,      \* the caller's consumer has returned Err(ConsumeError)
    sink,         \* JSON2XMLConsumer fields: states_stack, keys_stack, and what
                  \* its xml_write was asked to write
    client,       \* "bs" mode: the caller's record of its get / unget calls
    process       \* the json2xml command: what main wrote to standard error, and
                  \* the exit code once the process has ended

vars == <<mode, alpha, source, byte_source, bsLog, lexer, locals, pc, result,
          adapter, lexOut, parOut, adapterTrace, aborted, sink, client, process>>

-----------------------------------------------------------------------------
(* Bounds of the model *)

\* number of non-empty reads the underlying reader serves before end-of-stream,
\* in a lex pass, in a parse pass, and to a lone caller of the byte source
MaxReadsLex == 3
MaxReadsParse == 4
MaxReadsBS == 4
MaxReadsXml == 4

\* number of consecutive transient read errors inside one call of get
MaxRetry == 1

-----------------------------------------------------------------------------
(* Bytes *)

Ch == [ TAB |-> 9, LF |-> 10, CR |-> 13, SP |-> 32, BS |-> 8, FF |-> 12,
        bang |-> 33, amp |-> 38, apos |-> 39, lt |-> 60, gt |-> 62, C |-> 67,
        T |-> 84,
        quote |-> 34, plus |-> 43, comma |-> 44, minus |-> 45, dot |-> 46,
        slash |-> 47, d0 |-> 48, d1 |-> 49, d2 |-> 50, d3 |-> 51, d5 |-> 53,
        d8 |-> 56, d9 |-> 57,
        colon |-> 58, star |-> 42, A |-> 65, B |-> 66, D |-> 68, E |-> 69, F |-> 70,
        Z |-> 90, lbracket |-> 91, backslash |-> 92, rbracket |-> 93,
        a |-> 97, b |-> 98, e |-> 101, f |-> 102, i |-> 105, l |-> 108, n |-> 110,
        o |-> 111, r |-> 114, s |-> 115, t |-> 116, u |-> 117, x |-> 120,
        lbrace |-> 123, rbrace |-> 125 ]

IsDigit(byte) == Ch.d0 <= byte /\ byte <= Ch.d9
IsDigit19(byte) == Ch.d1 <= byte /\ byte <= Ch.d9

REPLACEMENT_CHARACTER == 65533

\* char::from_u32: a Unicode scalar value is at most 0x10FFFF and no surrogate
char_from_u32_ok(cp) == cp <= 1114111 /\ ~(55296 <= cp /\ cp <= 57343)

\* char::encode_utf8
encode_utf8(cp) ==
    IF cp < 128 THEN <<cp>>
    ELSE IF cp < 2048 THEN <<192 + (cp \div 64), 128 + (cp % 64)>>
    ELSE IF cp < 65536 THEN
        <<224 + (cp \div 4096), 128 + ((cp \div 64) % 64), 128 + (cp % 64)>>
    ELSE <<240 + (cp \div 262144), 128 + ((cp \div 4096) % 64),
           128 + ((cp \div 64) % 64), 128 + (cp % 64)>>

\* String::from_utf8 succeeds: the bytes from position k on are well-formed UTF-8
RECURSIVE Utf8From(_, _)
Utf8From(s, k) ==
    IF k > Len(s) THEN TRUE
    ELSE LET b0 == s[k]
             In(j, lo, hi) == j <= Len(s) /\ lo <= s[j] /\ s[j] <= hi
             Cont(j) == In(j, 128, 191)
         IN  IF b0 < 128 THEN Utf8From(s, k + 1)
             ELSE IF 194 <= b0 /\ b0 <= 223 THEN Cont(k + 1) /\ Utf8From(s, k + 2)
             ELSE IF b0 = 224 THEN In(k + 1, 160, 191) /\ Cont(k + 2) /\ Utf8From(s, k + 3)
             ELSE IF (225 <= b0 /\ b0 <= 236) \/ b0 = 238 \/ b0 = 239
                  THEN Cont(k + 1) /\ Cont(k + 2) /\ Utf8From(s, k + 3)
             ELSE IF b0 = 237 THEN In(k + 1, 128, 159) /\ Cont(k + 2) /\ Utf8From(s, k + 3)
             ELSE IF b0 = 240
                  THEN In(k + 1, 144, 191) /\ Cont(k + 2) /\ Cont(k + 3) /\ Utf8From(s, k + 4)
             ELSE IF 241 <= b0 /\ b0 <= 243
                  THEN Cont(k + 1) /\ Cont(k + 2) /\ Cont(k + 3) /\ Utf8From(s, k + 4)
             ELSE IF b0 = 244
                  THEN In(k + 1, 128, 143) /\ Cont(k + 2) /\ Cont(k + 3) /\ Utf8From(s, k + 4)
             ELSE FALSE

from_utf8_ok(s) == Utf8From(s, 1)

-----------------------------------------------------------------------------
(* Tokens, errors and events *)

\* Ok(LexerToken::name(val)) / Ok(ParserToken::name(val)); val is <<>> for a
\* token without payload, text is a byte sequence, a boolean is <<TRUE>> / <<FALSE>>
Tok(name, val) == [kind |-> "Ok", name |-> name, val |-> val]

\* lex_error!: JSONLexError { msg, line, column }; msg is a format and its argument
LexError(msg, arg, line, column) ==
    [kind |-> "Err", name |-> msg, val |-> arg, line |-> line, column |-> column]

\* what the lexer wants delivered before the position is known: a token, or
\* the format and argument of an error
Item(kind, name, val) == [kind |-> kind, name |-> name, val |-> val]

IsErr(ev) == ev.kind = "Err"
IsTok(ev, name) == ev.kind = "Ok" /\ ev.name = name

-----------------------------------------------------------------------------
(* The underlying reader (the R: Read the ByteSource wraps) *)

\* The chunks one successful read may return.  Each alpha is one family of
\* inputs; a chunk is at most the 32 KiB of the buffer, so it always fits.
Chunks(a) ==
    CASE a = "json" ->
            { <<Ch.lbrace>>, <<Ch.rbrace>>, <<Ch.lbracket>>, <<Ch.rbracket>>,
              <<Ch.quote, Ch.a, Ch.quote, Ch.colon>>, <<Ch.quote, Ch.a, Ch.quote>>,
              <<Ch.comma>>, <<Ch.d1>> }
      [] a = "jerr" ->
            { <<Ch.lbracket>>, <<Ch.rbracket>>, <<Ch.comma>>, <<Ch.d1>>,
              <<Ch.t, Ch.r, Ch.u, Ch.e>>, <<Ch.star>> }
      [] a = "word" ->
            { <<Ch.t, Ch.r>>, <<Ch.u, Ch.e>>, <<Ch.f, Ch.a, Ch.l, Ch.s, Ch.e>>,
              <<Ch.n, Ch.u, Ch.l, Ch.l>>, <<Ch.LF>>, <<Ch.SP>>, <<Ch.comma>>,
              <<Ch.x>> }
      [] a = "num" ->
            { <<Ch.minus>>, <<Ch.d0>>, <<Ch.d1>>, <<Ch.dot>>, <<Ch.e>>,
              <<Ch.E>>, <<Ch.plus>>, <<Ch.LF>>, <<Ch.rbracket>>,
              <<Ch.e, Ch.minus>>, <<Ch.dot, Ch.d5>> }
      [] a = "str" ->
            { <<Ch.quote>>, <<Ch.backslash>>, <<Ch.a>>, <<Ch.n>>, <<Ch.slash>>,
              <<Ch.LF>>, <<Ch.backslash, Ch.u, Ch.d0, Ch.d0>>, <<Ch.d0>>,
              <<Ch.E, Ch.d9>>, <<200>> }
      [] a = "uni" ->
            { <<Ch.quote, Ch.backslash, Ch.u, Ch.D, Ch.d8, Ch.d3, Ch.D>>,
              <<Ch.backslash, Ch.u, Ch.D, Ch.E, Ch.d0, Ch.d0>>,
              <<Ch.backslash, Ch.u, Ch.d0, Ch.d0, Ch.d0>>, <<Ch.d0>>,
              <<Ch.backslash>>, <<Ch.n>>, <<Ch.x>>, <<Ch.LF>>, <<Ch.quote>> }
      [] a = "arr" ->
            { <<Ch.lbracket>>, <<Ch.rbracket>>, <<Ch.comma>>, <<Ch.SP>>, <<Ch.d1>>,
              <<Ch.minus, Ch.d0>>, <<Ch.d1, Ch.E, Ch.d5>>, <<Ch.d1, Ch.dot, Ch.d5>>,
              <<Ch.quote, Ch.a, Ch.quote>>, <<Ch.n, Ch.u, Ch.l, Ch.l>> }
      [] a = "xml" ->
            { <<Ch.lbrace, Ch.quote, Ch.a, Ch.quote, Ch.colon>>,
              <<Ch.lbracket, Ch.lbrace, Ch.quote, Ch.b, Ch.quote, Ch.colon>>,
              <<Ch.lbracket>>, <<Ch.rbracket>>, <<Ch.rbrace>>,
              <<Ch.rbracket, Ch.rbrace>>, <<Ch.comma>>, <<Ch.d1>>,
              <<Ch.quote, Ch.a, Ch.quote>>, <<Ch.star>> }
      [] a = "back" ->
            { <<Ch.t, Ch.r, Ch.u, Ch.e>>, <<Ch.d1>>, <<Ch.minus>>, <<Ch.d1, Ch.dot, Ch.d5>>,
              <<Ch.d1, Ch.e>>, <<Ch.x>>,
              <<Ch.quote, Ch.backslash, Ch.u, Ch.D, Ch.d8, Ch.d3, Ch.D>>, <<Ch.backslash>> }
      [] a = "pair" ->
            { <<Ch.quote, Ch.backslash, Ch.u, Ch.D, Ch.d8, Ch.d0, Ch.d0>>,
              <<Ch.quote, Ch.backslash, Ch.u, Ch.D, Ch.d8, Ch.d3, Ch.D>>,
              <<Ch.quote, Ch.backslash, Ch.u, Ch.D, Ch.B, Ch.F, Ch.F>>,
              <<Ch.backslash, Ch.u, Ch.D, Ch.C, Ch.d0, Ch.d0>>,
              <<Ch.backslash, Ch.u, Ch.D, Ch.E, Ch.d0, Ch.d0>>,
              <<Ch.backslash, Ch.u, Ch.D, Ch.F, Ch.F, Ch.F>>,
              <<Ch.quote>> }
      [] a = "bytes" ->
            { <<Ch.a>>, <<Ch.b>>, <<Ch.a, Ch.b>>, <<Ch.b, Ch.a, Ch.a>> }

\* the bound on the reads of a pass in mode m
MaxReads(m) ==
    CASE m = "lex" -> MaxReadsLex
      [] m = "parse" -> MaxReadsParse
      [] m = "xml" -> MaxReadsXml
      [] m = "bs" -> MaxReadsBS

\* Read::read(&mut buffer): Ok(n > 0) with n fresh bytes, or Ok(0).  Once the
\* reader has reported Ok(0), or has served its MaxReads chunks, it reports Ok(0).
ReadOutcomes(src, a, m) ==
    IF src.ended \/ src.reads >= MaxReads(m) THEN { <<>> }
    ELSE Chunks(a) \cup { <<>> }

\* the reader after read returned rd
SourceAfter(src, rd) ==
    IF rd = <<>> THEN [src EXCEPT !.ended = TRUE]
    ELSE [src EXCEPT !.stream = src.stream \o rd, !.reads = src.reads + 1]

-----------------------------------------------------------------------------
(* ByteSource (byte_source.rs) *)

ByteSourceNew ==
    [unget_byte |-> <<>>, buffer |-> <<>>, i |-> 0, limit |-> 0, retries |-> 0]

\* get() has to call source.read: no pushed-back byte and the window is used
\* up, or it is already inside its read loop after a transient error
NeedsRead(bs) == bs.unget_byte = <<>> /\ (bs.retries > 0 \/ bs.i >= bs.limit)

\* read(&mut self.buffer[..]) returning Ok(n): the first n cells are overwritten
BufferAfterRead(buffer, rd) ==
    rd \o SubSeq(buffer, Len(rd) + 1, Len(buffer))

\* ByteSource::get, where rd is what source.read returns if get calls it:
\* [bs |-> the byte source afterwards, ret |-> Option<u8>]
BSGet(bs, rd) ==
    IF bs.unget_byte # <<>>
    THEN [bs |-> [bs EXCEPT !.unget_byte = <<>>], ret |-> bs.unget_byte]
    ELSE IF bs.retries > 0 \/ bs.i >= bs.limit
    THEN IF rd = <<>>
         THEN [bs |-> [bs EXCEPT !.i = 0, !.retries = 0], ret |-> <<>>]
         ELSE [bs |-> [bs EXCEPT !.i = 1, !.limit = Len(rd), !.retries = 0,
                                 !.buffer = BufferAfterRead(bs.buffer, rd)],
               ret |-> <<rd[1]>>]
    ELSE [bs |-> [bs EXCEPT !.i = bs.i + 1], ret |-> <<bs.buffer[bs.i + 1]>>]

\* ByteSource::get at `Err(_) => {} // retry`: i was reset, the loop goes on
BSReadErr(bs) == [bs EXCEPT !.i = 0, !.retries = bs.retries + 1]

\* ByteSource::unget indexes buffer[i-1]: it panics when i = 0
BSUngetPanics(bs) == bs.i = 0

\* an unget that also steps the read position back
BSUngetRewind(bs) == [bs EXCEPT !.unget_byte = <<bs.buffer[bs.i]>>, !.i = bs.i - 1]

\* ByteSource::unget
BSUnget(bs) == [bs EXCEPT !.unget_byte = <<bs.buffer[bs.i]>>]

\* n calls of unget in a row
RECURSIVE BSUngetTimes(_, _)
BSUngetTimes(bs, n) == IF n = 0 THEN bs ELSE BSUngetTimes(BSUnget(bs), n - 1)

\* the log of the last two byte-source operations, after op
LogOp(log, op) == <<log[2], op>>

RECURSIVE LogUngets(_, _)
LogUngets(log, n) == IF n = 0 THEN log ELSE LogUngets(LogOp(log, "unget"), n - 1)

-----------------------------------------------------------------------------
(* JSONLexer::lex (json_lexer.rs): one iteration of `while let Some(byte)` *)

\* lex's local variables as declared before the loop.  `token` is the payload
\* of LexerState::Expect(token), <<>> in every other state.
LocalsNew ==
    [state |-> "None", token |-> <<>>, expect |-> <<1, 2, 3, 4>>,
     expected_index |-> 0, number_sub_state |-> "None",
     string_sub_state |-> "None", buf |-> <<>>, code_point |-> 0,
     unicode_index |-> 0, high |-> 0]

\* What one iteration did: the locals afterwards, what it handed to
\* consumer.consume (in order), how often it called byte_source.unget, and
\* whether it reached panic!()
Step(l, items, ungets) == [l |-> l, items |-> items, ungets |-> ungets, panic |-> FALSE]

\* an end_of_number! that leaves the lexer in the number
end_of_number_staying(l) == [l EXCEPT !.buf = <<>>]

\* an end_of_number! that resets the sub-state and leaves the lexer in the
\* number
end_of_number_half(l) == [l EXCEPT !.buf = <<>>, !.number_sub_state = "None"]

\* end_of_number! without its unget: the caller counts that
end_of_number(l) ==
    [l EXCEPT !.buf = <<>>, !.number_sub_state = "None", !.state = "None"]

\* an end_of_number! that does not push the terminator back
EndOfNumberUngetsNone == 1 - 1

\* how often end_of_number! calls byte_source.unget
EndOfNumberUngets == 1

end_of_string(l) ==
    [l EXCEPT !.buf = <<>>, !.string_sub_state = "None", !.state = "None"]

end_of_unicode(l) ==
    [l EXCEPT !.code_point = 0, !.unicode_index = 0, !.string_sub_state = "None"]

\* a consume_buf! that leaves out a leading minus sign
consume_buf_unsigned(buf, token_variant) ==
    IF buf # <<>> /\ buf[1] = Ch.minus
    THEN Item("Ok", token_variant, Tail(buf))
    ELSE Item("Ok", token_variant, buf)

\* consume_buf!: the token built from buf, or the decode error
consume_buf(buf, token_variant) ==
    IF from_utf8_ok(buf) THEN Item("Ok", token_variant, buf)
    ELSE Item("Err", "Can't decode string", buf)

\* try_to_append_code_point!: [l |-> locals, items |-> what was consumed]
try_to_append_code_point(l, code_point, ignore_unicode_errs) ==
    IF char_from_u32_ok(code_point)
    THEN [l |-> [l EXCEPT !.buf = l.buf \o encode_utf8(code_point)], items |-> <<>>]
    ELSE IF ignore_unicode_errs
    THEN [l |-> [l EXCEPT !.buf = l.buf \o encode_utf8(REPLACEMENT_CHARACTER)],
          items |-> <<>>]
    ELSE [l |-> l, items |-> <<Item("Err", "This is not a code point", <<code_point>>)>>]

\* JSONLexer::parse_hex: Option<u32>, None standing for the Err
parse_hex(byte) ==
    IF Ch.d0 <= byte /\ byte <= Ch.d9 THEN <<byte - Ch.d0>>
    ELSE IF Ch.a <= byte /\ byte <= Ch.f THEN <<byte - Ch.a + 10>>
    ELSE IF Ch.A <= byte /\ byte <= Ch.F THEN <<byte - Ch.A + 10>>
    ELSE <<>>

\* LexerState::None
LexNone(l, byte) ==
    CASE byte \in {Ch.SP, Ch.TAB, Ch.CR} -> Step(l, <<>>, 0)
      [] byte = Ch.f ->
            Step([l EXCEPT !.expect = <<Ch.a, Ch.l, Ch.s, Ch.e>>, !.state = "Expect",
                           !.token = Tok("BooleanValue", <<0>>), !.expected_index = 0],
                 <<>>, 0)
      [] byte = Ch.t ->
            Step([l EXCEPT !.expect = <<0, Ch.r, Ch.u, Ch.e>>, !.state = "Expect",
                           !.token = Tok("BooleanValue", <<1>>), !.expected_index = 1],
                 <<>>, 0)
      [] byte = Ch.n ->
            Step([l EXCEPT !.expect = <<0, Ch.u, Ch.l, Ch.l>>, !.state = "Expect",
                           !.token = Tok("NullValue", <<>>), !.expected_index = 1],
                 <<>>, 0)
      [] byte = Ch.lbrace -> Step(l, <<Item("Ok", "BeginObject", <<>>)>>, 0)
      [] byte = Ch.rbrace -> Step(l, <<Item("Ok", "EndObject", <<>>)>>, 0)
      [] byte = Ch.lbracket -> Step(l, <<Item("Ok", "BeginArray", <<>>)>>, 0)
      [] byte = Ch.rbracket -> Step(l, <<Item("Ok", "EndArray", <<>>)>>, 0)
      [] byte = Ch.colon -> Step(l, <<Item("Ok", "NameSeparator", <<>>)>>, 0)
      [] byte = Ch.comma -> Step(l, <<Item("Ok", "ValueSeparator", <<>>)>>, 0)
      [] byte = Ch.minus ->
            Step([l EXCEPT !.state = "Number", !.number_sub_state = "NegNumberStart",
                           !.buf = <<Ch.minus>>], <<>>, 0)
      [] byte = Ch.d0 ->
            Step([l EXCEPT !.state = "Number", !.number_sub_state = "ZeroNumberStart",
                           !.buf = <<Ch.d0>>], <<>>, 0)
      [] byte = Ch.quote ->
            Step([l EXCEPT !.state = "String", !.string_sub_state = "None",
                           !.buf = <<>>], <<>>, 0)
      [] IsDigit19(byte) ->
            Step([l EXCEPT !.state = "Number", !.number_sub_state = "OtherNumber",
                           !.buf = <<byte>>], <<>>, 0)
      [] OTHER -> Step(l, <<Item("Err", "Unexpected char", <<byte>>)>>, 0)

\* an Expect arm that pushes back two bytes
ExpectDoneUngetsTwice == 1 + 1

\* how often the arm `Expect(token) if expected_index == expect.len()` calls unget
ExpectDoneUngets == 1

\* LexerState::Expect(token): the two guarded arms, then the catch-all `_ => {}`
LexExpect(l, byte) ==
    IF l.expected_index < Len(l.expect)
    THEN IF l.expect[l.expected_index + 1] = byte
         THEN Step([l EXCEPT !.expected_index = l.expected_index + 1], <<>>, 0)
         ELSE Step([l EXCEPT !.state = "None", !.token = <<>>],
                   <<Item("Err", "Expected word", l.expect)>>, 0)
    ELSE IF l.expected_index = Len(l.expect)
    THEN Step([l EXCEPT !.expected_index = 0, !.state = "None", !.token = <<>>],
              <<l.token>>, ExpectDoneUngets)
    ELSE Step(l, <<>>, 0)

\* a number arm that ends the number: consume item, then end_of_number!
NumberEnds(l, item) == Step(end_of_number(l), <<item>>, EndOfNumberUngets)

\* a number arm that pushes byte c and forgets to move on
NumberPushStay(l, c, sub) ==
    Step([l EXCEPT !.buf = Append(l.buf, c)], <<>>, 0)

\* a number arm that pushes byte c and moves to sub-state sub
NumberPush(l, c, sub) ==
    Step([l EXCEPT !.buf = Append(l.buf, c), !.number_sub_state = sub], <<>>, 0)

IsExp(byte) == byte = Ch.e \/ byte = Ch.E

\* LexerState::Number
LexNumber(l, byte) ==
    CASE l.number_sub_state = "NegNumberStart" ->
            IF byte = Ch.d0 THEN NumberPush(l, Ch.d0, "ZeroNumberStart")
            ELSE IF IsDigit19(byte) THEN NumberPush(l, byte, "OtherNumber")
            ELSE NumberEnds(l, Item("Err", "Expected a digit", <<byte>>))
      [] l.number_sub_state = "ZeroNumberStart" ->
            IF byte = Ch.dot THEN NumberPush(l, Ch.dot, "NumberFracStart")
            ELSE IF IsExp(byte) THEN NumberPush(l, Ch.e, "NumberFracExpStart")
            ELSE NumberEnds(l, Item("Ok", "IntValue", <<Ch.d0>>))
      [] l.number_sub_state = "OtherNumber" ->
            IF byte = Ch.dot THEN NumberPush(l, Ch.dot, "NumberFracStart")
            ELSE IF IsExp(byte) THEN NumberPush(l, Ch.e, "NumberFracExpStart")
            ELSE IF IsDigit(byte) THEN NumberPush(l, byte, "OtherNumber")
            ELSE NumberEnds(l, consume_buf(l.buf, "IntValue"))
      [] l.number_sub_state = "NumberFracStart" ->
            IF IsDigit(byte) THEN NumberPush(l, byte, "NumberFrac")
            ELSE NumberEnds(l, Item("Err", "Missing decimals", l.buf))
      [] l.number_sub_state = "NumberFrac" ->
            IF IsExp(byte) THEN NumberPush(l, Ch.e, "NumberFracExpStart")
            ELSE IF IsDigit(byte) THEN NumberPush(l, byte, "NumberFrac")
            ELSE NumberEnds(l, consume_buf(l.buf, "FloatValue"))
      [] l.number_sub_state = "NumberFracExpStart" ->
            IF byte = Ch.minus THEN NumberPush(l, Ch.minus, "NumberFracExpMinusStart")
            ELSE IF IsDigit(byte) THEN NumberPush(l, byte, "NumberFracExp")
            ELSE NumberEnds(l, Item("Err", "Missing exp", l.buf))
      [] l.number_sub_state = "NumberFracExp" ->
            IF IsDigit(byte) THEN NumberPush(l, byte, "NumberFracExp")
            ELSE NumberEnds(l, consume_buf(l.buf, "FloatValue"))
      [] l.number_sub_state = "NumberFracExpMinusStart" ->
            IF IsDigit(byte) THEN NumberPush(l, byte, "NumberFracExpMinus")
            ELSE NumberEnds(l, Item("Err", "Missing exp", l.buf))
      [] l.number_sub_state = "NumberFracExpMinus" ->
            IF IsDigit(byte) THEN NumberPush(l, byte, "NumberFracExpMinus")
            ELSE NumberEnds(l, consume_buf(l.buf, "FloatValue"))
      [] OTHER -> [Step(l, <<>>, 0) EXCEPT !.panic = TRUE]

\* a string arm that pushes byte c and returns to sub-state None
StringPush(l, c) ==
    Step([l EXCEPT !.buf = Append(l.buf, c), !.string_sub_state = "None"], <<>>, 0)

\* the first half of both Unicode arms: `if unicode_index <= 3 { parse_hex ... }`
UnicodeDigit(l, byte) ==
    IF l.unicode_index <= 3
    THEN IF parse_hex(byte) # <<>>
         THEN [l |-> [l EXCEPT !.code_point = l.code_point * 16 + parse_hex(byte)[1],
                               !.unicode_index = l.unicode_index + 1],
               items |-> <<>>]
         ELSE [l |-> end_of_unicode(l),
               items |-> <<Item("Err", "Unknown hex digit", <<byte>>)>>]
    ELSE [l |-> l, items |-> <<>>]

\* LexerState::String, `if high == 0`
LexStringPlain(l, byte, ignore_unicode_errs) ==
    CASE l.string_sub_state = "Escape" ->
            CASE byte = Ch.quote \/ byte = Ch.backslash -> StringPush(l, byte)
              [] byte = Ch.b -> StringPush(l, Ch.BS)
              [] byte = Ch.f -> StringPush(l, Ch.FF)
              [] byte = Ch.n -> StringPush(l, Ch.LF)
              [] byte = Ch.r -> StringPush(l, Ch.CR)
              [] byte = Ch.t -> StringPush(l, Ch.TAB)
              [] byte = Ch.u ->
                    Step([l EXCEPT !.string_sub_state = "Unicode", !.code_point = 0,
                                   !.unicode_index = 0], <<>>, 0)
              [] OTHER -> Step(l, <<Item("Err", "Unknown escaped char", <<byte>>)>>, 0)
      [] l.string_sub_state = "Unicode" ->
            LET d == UnicodeDigit(l, byte)
            IN  IF d.l.unicode_index = 4
                THEN IF 55296 <= d.l.code_point /\ d.l.code_point <= 56319
                     THEN Step(end_of_unicode([d.l EXCEPT !.high = d.l.code_point]),
                               d.items, 0)
                     ELSE LET a == try_to_append_code_point(d.l, d.l.code_point,
                                                            ignore_unicode_errs)
                          IN  Step(end_of_unicode(a.l), d.items \o a.items, 0)
                ELSE Step(d.l, d.items, 0)
      [] OTHER ->
            IF byte = Ch.backslash
            THEN Step([l EXCEPT !.string_sub_state = "Escape"], <<>>, 0)
            ELSE IF byte = Ch.quote
            THEN Step(end_of_string(l), <<consume_buf(l.buf, "String")>>, 0)
            ELSE Step([l EXCEPT !.buf = Append(l.buf, byte)], <<>>, 0)

\* how often a deviation from `\uXXXX` after a high surrogate calls unget
LowSurrogateUngets == 1

\* a lexer that reads the escape after a high surrogate as any other escape
LexStringLowUncomposed(l, byte, ignore_unicode_errs) ==
    LexStringPlain(l, byte, ignore_unicode_errs)

\* LexerState::String, the else of `if high == 0`: a low surrogate is awaited
LexStringLow(l, byte, ignore_unicode_errs) ==
    CASE l.string_sub_state = "Escape" ->
            IF byte = Ch.u
            THEN Step([l EXCEPT !.string_sub_state = "Unicode", !.code_point = 0,
                                !.unicode_index = 0], <<>>, 0)
            ELSE Step([l EXCEPT !.high = 0],
                      <<Item("Err", "Waiting for low surrogate: needs \\u, got", <<byte>>)>>,
                      LowSurrogateUngets)
      [] l.string_sub_state = "Unicode" ->
            LET d == UnicodeDigit(l, byte)
            IN  IF d.l.unicode_index = 4
                THEN IF 56320 <= d.l.code_point /\ d.l.code_point <= 57343
                     THEN LET cp == 65536 + (d.l.high - 55296) * 1024
                                          + d.l.code_point - 56320
                              a == try_to_append_code_point(
                                       [d.l EXCEPT !.code_point = cp], cp,
                                       ignore_unicode_errs)
                          IN  Step(end_of_unicode([a.l EXCEPT !.high = 0]),
                                   d.items \o a.items, 0)
                     ELSE Step(end_of_unicode(
                                   [d.l EXCEPT !.high = 0,
                                        !.buf = d.l.buf \o encode_utf8(REPLACEMENT_CHARACTER)]),
                               d.items \o <<Item("Err", "Waiting for low surrogate, got",
                                                 <<d.l.code_point>>)>>, 0)
                ELSE Step(d.l, d.items, 0)
      [] OTHER ->
            IF byte = Ch.backslash
            THEN Step([l EXCEPT !.string_sub_state = "Escape"], <<>>, 0)
            ELSE Step([l EXCEPT !.high = 0],
                      <<Item("Err", "Waiting for low surrogate: needs backslash, got",
                             <<byte>>)>>,
                      LowSurrogateUngets)

\* LexerState::String
LexString(l, byte, ignore_unicode_errs) ==
    IF l.high = 0 THEN LexStringPlain(l, byte, ignore_unicode_errs)
    ELSE LexStringLow(l, byte, ignore_unicode_errs)

\* the body of the loop after `self.column += 1`: a line feed only counts a
\* line, every other byte is dispatched on the state
LexByte(l, byte, ignore_unicode_errs) ==
    IF byte = Ch.LF THEN Step(l, <<>>, 0)
    ELSE CASE l.state = "None" -> LexNone(l, byte)
           [] l.state = "Expect" -> LexExpect(l, byte)
           [] l.state = "Number" -> LexNumber(l, byte)
           [] l.state = "String" -> LexString(l, byte, ignore_unicode_errs)

\* `self.column += 1; if byte == b'\n' { self.line += 1 }`
LexerAfterByte(lx, byte) ==
    [lx EXCEPT !.column = lx.column + 1,
               !.line = IF byte = Ch.LF THEN lx.line + 1 ELSE lx.line]

\* after the loop: `match state { ... }`, what is consumed before EndFile
LexFinish(l) ==
    CASE l.state = "Number" ->
            CASE l.number_sub_state = "ZeroNumberStart" -> <<Item("Ok", "IntValue", <<Ch.d0>>)>>
              [] l.number_sub_state = "NegNumberStart" -> <<Item("Err", "Missing digits", l.buf)>>
              [] l.number_sub_state = "OtherNumber" -> <<consume_buf(l.buf, "IntValue")>>
              [] l.number_sub_state = "NumberFracStart" -> <<Item("Err", "Missing decimals", l.buf)>>
              [] l.number_sub_state = "NumberFrac" -> <<consume_buf(l.buf, "FloatValue")>>
              [] l.number_sub_state = "NumberFracExpStart" -> <<Item("Err", "Missing exp", l.buf)>>
              [] l.number_sub_state = "NumberFracExp" -> <<consume_buf(l.buf, "FloatValue")>>
              [] l.number_sub_state = "NumberFracExpMinusStart" -> <<Item("Err", "Missing exp", l.buf)>>
              [] l.number_sub_state = "NumberFracExpMinus" -> <<consume_buf(l.buf, "FloatValue")>>
              [] OTHER -> <<Item("Err", "Unexpected sub_state", <<>>)>>
      [] l.state = "String" ->
            IF from_utf8_ok(l.buf) THEN <<Item("Err", "Unfinished string", l.buf)>>
            ELSE <<Item("Err", "Can't decode string", l.buf)>>
      [] l.state = "None" -> <<>>
      [] OTHER -> <<Item("Err", "Unexpected sub_state", <<>>)>>

\* an item with the lexer's current position: what consumer.consume receives
\* (a token with line and column, or a JSONLexError carrying them)
AtPosition(item, lx) ==
    [kind |-> item.kind, name |-> item.name, val |-> item.val,
     line |-> lx.line, column |-> lx.column]

-----------------------------------------------------------------------------
(* JSONLexerToParser::consume (json_parser.rs) *)

AdapterNew == [state |-> "Undefined", states |-> <<>>]

\* JSONParseError { msg, line, column }
ParseError(msg, arg, line, column) ==
    [kind |-> "Err", name |-> msg, val |-> arg, line |-> line, column |-> column]

\* What consume did: the adapter afterwards, what it handed to
\* self.consumer.consume, the value it returns when the consumer answers Ok,
\* and whether an unwrap() failed
Consumed(ad, out) == [ad |-> ad, out |-> out, ret |-> "Ok", panic |-> FALSE]

\* an adapter that falls back to state None when it rejects a token
UnexpectedTokenResetting(ad, ev) ==
    Consumed([ad EXCEPT !.state = "None"],
             <<ParseError("Unexpected token " \o ev.name, ev.val, ev.line, ev.column)>>)

\* parse_error!("Unexpected token `{:?}`", t)
UnexpectedToken(ad, ev) ==
    Consumed(ad, <<ParseError("Unexpected token " \o ev.name, ev.val, ev.line, ev.column)>>)

IsScalarToken(ev) ==
    ev.name \in {"BooleanValue", "NullValue", "IntValue", "FloatValue", "String"}

\* the ParserToken a scalar LexerToken is forwarded as in a value position
ScalarValue(ev) ==
    Tok(IF ev.name = "String" THEN "StringValue" ELSE ev.name, ev.val)

\* an adapter that enters a container without pushing the state to resume
DescendUnpushed(ad, ev, resume) ==
    Consumed([ad EXCEPT !.state = IF ev.name = "BeginObject" THEN "InObject" ELSE "InArray"],
             <<Tok(ev.name, <<>>)>>)

\* self.states.push(resume); self.state = inside; forward the Begin token
Descend(ad, ev, resume) ==
    Consumed([ad EXCEPT !.states = Append(ad.states, resume),
                        !.state = IF ev.name = "BeginObject" THEN "InObject" ELSE "InArray"],
             <<Tok(ev.name, <<>>)>>)

\* self.state = self.states.pop().unwrap(); forward the End token
Ascend(ad, ev) ==
    IF ad.states = <<>> THEN [Consumed(ad, <<>>) EXCEPT !.panic = TRUE]
    ELSE Consumed([ad EXCEPT !.state = ad.states[Len(ad.states)],
                             !.states = SubSeq(ad.states, 1, Len(ad.states) - 1)],
                  <<Tok(ev.name, <<>>)>>)

\* an adapter that forwards a lexical error and returns Ok
ConsumeLexErrorTolerant(ad, ev) ==
    Consumed(ad, <<ParseError(ev.name, ev.val, ev.line, ev.column)>>)

\* an adapter that forwards a lexical error without its position
ConsumeLexErrorUnplaced(ad, ev) ==
    [Consumed(ad, <<ParseError(ev.name, ev.val, 0, 0)>>) EXCEPT !.ret = "Err"]

\* `if let Err(e) = token`: the error is re-wrapped, then Err(ConsumeError)
ConsumeLexError(ad, ev) ==
    [Consumed(ad, <<ParseError(ev.name, ev.val, ev.line, ev.column)>>) EXCEPT !.ret = "Err"]

\* ParserState::Undefined
ConsumeUndefined(ad, ev) ==
    IF ev.name = "BeginFile"
    THEN Consumed([ad EXCEPT !.state = "None"], <<Tok("BeginFile", <<>>)>>)
    ELSE Consumed(ad, <<ParseError("Unexpected state", <<>>, ev.line, ev.column)>>)

\* a state None that takes one value and nothing after it but EndFile
ConsumeNoneOnce(ad, ev) ==
    CASE ev.name = "EndFile" -> Consumed(ad, <<Tok("EndFile", <<>>)>>)
      [] ev.name \in {"BeginObject", "BeginArray"} -> Descend(ad, ev, "Undefined")
      [] IsScalarToken(ev) -> Consumed([ad EXCEPT !.state = "Undefined"], <<ScalarValue(ev)>>)
      [] OTHER -> UnexpectedToken(ad, ev)

\* a state None that takes EndFile without forwarding it
ConsumeNoneSilent(ad, ev) ==
    CASE ev.name = "EndFile" -> Consumed(ad, <<>>)
      [] ev.name \in {"BeginObject", "BeginArray"} -> Descend(ad, ev, "None")
      [] IsScalarToken(ev) -> Consumed(ad, <<ScalarValue(ev)>>)
      [] OTHER -> UnexpectedToken(ad, ev)

\* ParserState::None
ConsumeNone(ad, ev) ==
    CASE ev.name = "EndFile" ->
            IF ad.states # <<>>
            THEN Consumed(ad, <<ParseError("Should be closed: " \o ad.states[Len(ad.states)],
                                           <<>>, ev.line, ev.column)>>)
            ELSE Consumed(ad, <<Tok("EndFile", <<>>)>>)
      [] ev.name \in {"BeginObject", "BeginArray"} -> Descend(ad, ev, "None")
      [] IsScalarToken(ev) -> Consumed(ad, <<ScalarValue(ev)>>)
      [] OTHER -> UnexpectedToken(ad, ev)

\* ParserState::InObject
ConsumeInObject(ad, ev) ==
    CASE ev.name = "EndObject" -> Ascend(ad, ev)
      [] ev.name = "String" ->
            Consumed([ad EXCEPT !.state = "InObjectMember"], <<Tok("Key", ev.val)>>)
      [] OTHER -> UnexpectedToken(ad, ev)

\* a state InObjectMember that lets the object end after a key
ConsumeInObjectMemberLenient(ad, ev) ==
    CASE ev.name = "NameSeparator" -> Consumed([ad EXCEPT !.state = "InObjectMemberValue"], <<>>)
      [] ev.name = "EndObject" -> Ascend(ad, ev)
      [] OTHER -> UnexpectedToken(ad, ev)

\* ParserState::InObjectMember
ConsumeInObjectMember(ad, ev) ==
    IF ev.name = "NameSeparator"
    THEN Consumed([ad EXCEPT !.state = "InObjectMemberValue"], <<>>)
    ELSE UnexpectedToken(ad, ev)

\* a state InObjectMemberValue that forwards a String as a Key
ConsumeInObjectMemberValueAsKey(ad, ev) ==
    CASE ev.name = "String" -> Consumed([ad EXCEPT !.state = "InObjectSep"], <<Tok("Key", ev.val)>>)
      [] IsScalarToken(ev) -> Consumed([ad EXCEPT !.state = "InObjectSep"], <<ScalarValue(ev)>>)
      [] ev.name \in {"BeginObject", "BeginArray"} -> Descend(ad, ev, "InObjectSep")
      [] OTHER -> UnexpectedToken(ad, ev)

\* ParserState::InObjectMemberValue
ConsumeInObjectMemberValue(ad, ev) ==
    CASE IsScalarToken(ev) ->
            Consumed([ad EXCEPT !.state = "InObjectSep"], <<ScalarValue(ev)>>)
      [] ev.name \in {"BeginObject", "BeginArray"} -> Descend(ad, ev, "InObjectSep")
      [] OTHER -> UnexpectedToken(ad, ev)

\* ParserState::InObjectSep
ConsumeInObjectSep(ad, ev) ==
    CASE ev.name = "ValueSeparator" -> Consumed([ad EXCEPT !.state = "InObject"], <<>>)
      [] ev.name = "EndObject" -> Ascend(ad, ev)
      [] OTHER -> UnexpectedToken(ad, ev)

\* ParserState::InArray
ConsumeInArray(ad, ev) ==
    CASE ev.name = "EndArray" -> Ascend(ad, ev)
      [] IsScalarToken(ev) ->
            Consumed([ad EXCEPT !.state = "InArraySep"], <<ScalarValue(ev)>>)
      [] ev.name \in {"BeginObject", "BeginArray"} -> Descend(ad, ev, "InArraySep")
      [] OTHER -> UnexpectedToken(ad, ev)

\* a state InArraySep that lets either closing token end the array
ConsumeInArraySepAnyEnd(ad, ev) ==
    CASE ev.name = "ValueSeparator" -> Consumed([ad EXCEPT !.state = "InArray"], <<>>)
      [] ev.name \in {"EndArray", "EndObject"} -> Ascend(ad, ev)
      [] OTHER -> UnexpectedToken(ad, ev)

\* ParserState::InArraySep
ConsumeInArraySep(ad, ev) ==
    CASE ev.name = "ValueSeparator" -> Consumed([ad EXCEPT !.state = "InArray"], <<>>)
      [] ev.name = "EndArray" -> Ascend(ad, ev)
      [] OTHER -> UnexpectedToken(ad, ev)

\* JSONLexerToParser::consume(token, line, column), ev carrying all three
ParserConsume(ad, ev) ==
    IF IsErr(ev) THEN ConsumeLexError(ad, ev)
    ELSE CASE ad.state = "Undefined" -> ConsumeUndefined(ad, ev)
           [] ad.state = "None" -> ConsumeNone(ad, ev)
           [] ad.state = "InObject" -> ConsumeInObject(ad, ev)
           [] ad.state = "InObjectMember" -> ConsumeInObjectMember(ad, ev)
           [] ad.state = "InObjectMemberValue" -> ConsumeInObjectMemberValue(ad, ev)
           [] ad.state = "InObjectSep" -> ConsumeInObjectSep(ad, ev)
           [] ad.state = "InArray" -> ConsumeInArray(ad, ev)
           [] ad.state = "InArraySep" -> ConsumeInArraySep(ad, ev)

-----------------------------------------------------------------------------
(* JSON2XMLConsumer::consume (json2xml.rs).  What the sink writes is recorded *)
(* as the calls it makes on its XMLWrite.                                     *)

\* JSON2XMLConsumer::new_*: out is what the XMLWrite has written, io_failed
\* whether its destination has returned an io::Error
SinkNew == [states_stack |-> <<>>, keys_stack |-> <<>>, out |-> <<>>, io_failed |-> FALSE]

\* the element name of an array element
LI == <<Ch.l, Ch.i>>

\* the position of the first pat in s at or after i, 0 when there is none
RECURSIVE Find(_, _, _)
Find(s, pat, i) ==
    IF i + Len(pat) - 1 > Len(s) THEN 0
    ELSE IF SubSeq(s, i, i + Len(pat) - 1) = pat THEN i
    ELSE Find(s, pat, i + 1)

\* str::replace: the matches of pat, found from the left and not overlapping,
\* each replaced by to
RECURSIVE str_replace(_, _, _)
str_replace(s, pat, to) ==
    IF Find(s, pat, 1) = 0 THEN s
    ELSE SubSeq(s, 1, Find(s, pat, 1) - 1) \o to
         \o str_replace(SubSeq(s, Find(s, pat, 1) + Len(pat), Len(s)), pat, to)

CDATA_OPEN == <<Ch.lt, Ch.bang, Ch.lbracket, Ch.C, Ch.D, Ch.A, Ch.T, Ch.A, Ch.lbracket>>
CDATA_CLOSE == <<Ch.rbracket, Ch.rbracket, Ch.gt>>

\* an escape_value that ends the section at each ]]> and opens the next one
\* after it
escape_value_cutting(s) ==
    IF \E k \in 1..Len(s) : s[k] \in {Ch.lt, Ch.gt, Ch.amp, Ch.quote, Ch.apos}
    THEN CDATA_OPEN \o str_replace(s, CDATA_CLOSE, CDATA_CLOSE \o CDATA_OPEN) \o CDATA_CLOSE
    ELSE s

\* XMLWrite::escape_value
escape_value(s) ==
    IF \E k \in 1..Len(s) : s[k] \in {Ch.lt, Ch.gt, Ch.amp, Ch.quote, Ch.apos}
    THEN IF Find(s, CDATA_CLOSE, 1) # 0
         THEN CDATA_OPEN
              \o str_replace(s, CDATA_CLOSE,
                             <<Ch.rbracket, Ch.rbracket>> \o CDATA_CLOSE \o CDATA_OPEN
                             \o <<Ch.gt>>)
              \o CDATA_CLOSE
         ELSE CDATA_OPEN \o s \o CDATA_CLOSE
    ELSE s

\* the text a writer puts inside the element: write_value writes the value
\* as it is, write_string_value nothing for an empty value (the element is
\* self-closing) and otherwise escape_value(value)
ElementText(op, value) ==
    IF op = "write_string_value" /\ value # <<>> THEN escape_value(value) ELSE value

\* a call xml_write.op(size, cur_key, value_type, value), and the text it puts
\* inside the element; write_open and write_close take no argument,
\* write_begin and write_end the first two
XMLCall(op, size, cur_key, value_type, value) ==
    [op |-> op, size |-> size, cur_key |-> cur_key, value_type |-> value_type,
     value |-> value, text |-> ElementText(op, value)]

\* What consume did: the sink afterwards, the value it returns, and whether an
\* unwrap() failed
Sunk(sk, ret) == [sk |-> sk, ret |-> ret, panic |-> FALSE]

SinkPanicked(sk) == [sk |-> sk, ret |-> "Err", panic |-> TRUE]

\* `match result`: the call was written and consume returns Ok(()), or the
\* destination failed (io = FALSE) and consume returns Err(ConsumeError)
XMLWritten(sk, call, io) ==
    IF io THEN Sunk([sk EXCEPT !.out = Append(sk.out, call)], "Ok")
    ELSE Sunk([sk EXCEPT !.io_failed = TRUE], "Err")

\* self.states_stack.len() * 4
Indent(sk) == Len(sk.states_stack) * 4

\* a get_cur_key that reads the pending key of an object member and leaves it
\* on keys_stack
get_cur_key_peeking(sk) ==
    IF sk.states_stack = <<>> THEN [sk |-> sk, key |-> <<>>, panic |-> FALSE]
    ELSE IF sk.states_stack[Len(sk.states_stack)] = "BeginArray"
    THEN [sk |-> sk, key |-> <<LI>>, panic |-> FALSE]
    ELSE IF sk.keys_stack = <<>> THEN [sk |-> sk, key |-> <<>>, panic |-> TRUE]
    ELSE [sk |-> sk, key |-> <<sk.keys_stack[Len(sk.keys_stack)]>>, panic |-> FALSE]

\* JSON2XMLConsumer::get_cur_key: the sink afterwards, the key as an Option
\* (None for Err(ConsumeError)), and whether unwrap() failed
get_cur_key(sk) ==
    IF sk.states_stack = <<>> THEN [sk |-> sk, key |-> <<>>, panic |-> FALSE]
    ELSE IF sk.states_stack[Len(sk.states_stack)] = "BeginArray"
    THEN [sk |-> sk, key |-> <<LI>>, panic |-> FALSE]
    ELSE IF sk.keys_stack = <<>> THEN [sk |-> sk, key |-> <<>>, panic |-> TRUE]
    ELSE [sk |-> [sk EXCEPT !.keys_stack = SubSeq(sk.keys_stack, 1, Len(sk.keys_stack) - 1)],
          key |-> <<sk.keys_stack[Len(sk.keys_stack)]>>, panic |-> FALSE]

\* a sink that gives an array element that is a container no key to pop
SinkBeginUnkeyed(sk, ev, io) ==
    IF sk.states_stack = <<>> \/ sk.keys_stack = <<>>
          \/ sk.states_stack[Len(sk.states_stack)] = "BeginArray"
    THEN Sunk([sk EXCEPT !.states_stack = Append(sk.states_stack, ev.name)], "Ok")
    ELSE Sunk([sk EXCEPT !.states_stack = Append(sk.states_stack, ev.name),
                         !.out = Append(sk.out,
                                        XMLCall("write_begin", Indent(sk),
                                                sk.keys_stack[Len(sk.keys_stack)], "", <<>>))],
              "Ok")

\* Ok(BeginObject) | Ok(BeginArray)
SinkBegin(sk, ev, io) ==
    LET pushed(k) == [k EXCEPT !.states_stack = Append(k.states_stack, ev.name)]
    IN  IF sk.states_stack = <<>> THEN Sunk(pushed(sk), "Ok")
        ELSE IF sk.states_stack[Len(sk.states_stack)] = "BeginArray"
        THEN LET w == XMLWritten([sk EXCEPT !.keys_stack = Append(sk.keys_stack, LI)],
                                 XMLCall("write_begin", Indent(sk), LI, "", <<>>), io)
             IN  IF w.ret = "Err" THEN w ELSE Sunk(pushed(w.sk), "Ok")
        ELSE IF sk.keys_stack = <<>> THEN SinkPanicked(sk)
        ELSE LET w == XMLWritten(sk, XMLCall("write_begin", Indent(sk),
                                             sk.keys_stack[Len(sk.keys_stack)], "", <<>>),
                                 io)
             IN  IF w.ret = "Err" THEN w ELSE Sunk(pushed(w.sk), "Ok")

\* Ok(EndObject) | Ok(EndArray)
SinkEnd(sk, io) ==
    IF sk.states_stack = <<>> THEN SinkPanicked(sk)
    ELSE LET popped == [sk EXCEPT !.states_stack =
                                     SubSeq(sk.states_stack, 1, Len(sk.states_stack) - 1)]
         IN  IF popped.states_stack = <<>> THEN Sunk(popped, "Ok")
             ELSE IF popped.keys_stack = <<>> THEN SinkPanicked(popped)
             ELSE XMLWritten([popped EXCEPT !.keys_stack =
                                 SubSeq(popped.keys_stack, 1, Len(popped.keys_stack) - 1)],
                             XMLCall("write_end", Indent(popped),
                                     popped.keys_stack[Len(popped.keys_stack)], "", <<>>),
                             io)

\* the value_type and the text a scalar is written with
ScalarType(ev) ==
    CASE ev.name = "BooleanValue" -> "boolean"
      [] ev.name = "NullValue" -> "null"
      [] ev.name = "StringValue" -> "string"
      [] ev.name = "IntValue" -> "int"
      [] ev.name = "FloatValue" -> "float"

ScalarText(ev) ==
    CASE ev.name = "BooleanValue" ->
            IF ev.val = <<1>> THEN <<Ch.t, Ch.r, Ch.u, Ch.e>>
            ELSE <<Ch.f, Ch.a, Ch.l, Ch.s, Ch.e>>
      [] ev.name = "NullValue" -> <<Ch.n, Ch.u, Ch.l, Ch.l>>
      [] OTHER -> ev.val

\* the scalar arms: get_cur_key()?, then write_value or write_string_value
SinkScalar(sk, ev, io) ==
    LET k == get_cur_key(sk)
    IN  IF k.panic THEN SinkPanicked(sk)
        ELSE IF k.key = <<>> THEN Sunk(k.sk, "Err")
        ELSE XMLWritten(k.sk,
                        XMLCall(IF ev.name = "StringValue" THEN "write_string_value"
                                ELSE "write_value",
                                Indent(k.sk), k.key[1], ScalarType(ev), ScalarText(ev)),
                        io)

\* a sink that lets an error event pass
SinkErrorIgnored(sk) == Sunk(sk, "Ok")

\* Err(_) => { return Err(ConsumeError); }
SinkError(sk) == Sunk(sk, "Err")

\* JSON2XMLConsumer::consume(token), io telling whether the destination takes
\* the write
SinkConsume(sk, ev, io) ==
    CASE IsErr(ev) -> SinkError(sk)
      [] ev.name = "BeginFile" -> XMLWritten(sk, XMLCall("write_open", 0, <<>>, "", <<>>), io)
      [] ev.name = "EndFile" -> XMLWritten(sk, XMLCall("write_close", 0, <<>>, "", <<>>), io)
      [] ev.name \in {"BeginObject", "BeginArray"} -> SinkBegin(sk, ev, io)
      [] ev.name \in {"EndObject", "EndArray"} -> SinkEnd(sk, io)
      [] ev.name = "Key" -> Sunk([sk EXCEPT !.keys_stack = Append(sk.keys_stack, ev.val)], "Ok")
      [] OTHER -> SinkScalar(sk, ev, io)

-----------------------------------------------------------------------------
(* The consumer chain behind `consumer.consume(...)?` in lex *)

\* what one call of the lexer's consumer.consume did
Delivered(ad, sk, par, err, abort, panic) ==
    [ad |-> ad, sk |-> sk, par |-> par, err |-> err, abort |-> abort, panic |-> panic]

\* the adapter has done c and handed c.out[1] to the sink, which did x
SinkDelivered(c, x) ==
    Delivered(c.ad, x.sk, c.out, x.ret = "Err" \/ c.ret = "Err",
              x.ret = "Err" /\ ~x.panic, x.panic)

\* the adapter has done c in front of the caller's consumer
ParserDelivered(c, sk, ans) ==
    IF c.out # <<>> /\ ~c.panic
    THEN Delivered(c.ad, sk, c.out, ~ans \/ c.ret = "Err", ~ans, FALSE)
    ELSE Delivered(c.ad, sk, <<>>, c.ret = "Err", FALSE, c.panic)

\* the adapter has done c in front of the sink sk
XmlDelivered(c, sk, ans) ==
    IF c.out # <<>> /\ ~c.panic
    THEN SinkDelivered(c, SinkConsume(sk, c.out[1], ans))
    ELSE ParserDelivered(c, sk, ans)

\* What one call of the lexer's consumer.consume(ev) does when the caller's
\* consumer would answer ans (TRUE: Ok(()), FALSE: Err(ConsumeError)):
\*   ad     the adapter afterwards ("parse" and "xml" mode)
\*   sk     the XML sink afterwards ("xml" mode)
\*   par    the events the parser consumer received
\*   err    consume returned Err: the `?` makes lex return it
\*   abort  the caller's consumer was called and answered Err
\*   panic  an unwrap() failed
\* In "xml" mode the parser consumer is the sink, and ans tells whether the
\* destination takes what the sink writes.
Deliver(m, ad, sk, ev, ans) ==
    CASE m = "lex" -> Delivered(ad, sk, <<>>, ~ans, ~ans, FALSE)
      [] m = "xml" -> XmlDelivered(ParserConsume(ad, ev), sk, ans)
      [] OTHER -> ParserDelivered(ParserConsume(ad, ev), sk, ans)

\* the consumer chain's state while lex hands over events
Chain(ad, sk, lo, po, tr, err, abort, panic) ==
    [ad |-> ad, sink |-> sk, lexOut |-> lo, parOut |-> po, trace |-> tr,
     err |-> err, abort |-> abort, panic |-> panic]

\* the chain ch after its consumers did d with the event ev
Chained(m, ch, ev, d) ==
    Chain(d.ad, d.sk, Append(ch.lexOut, ev), ch.parOut \o d.par,
          IF m \in {"parse", "xml"} THEN Append(ch.trace, ch.ad.state) ELSE ch.trace,
          d.err, d.abort, d.panic)

\* lex hands over evs in order and stops at the first Err
RECURSIVE DeliverAll(_, _, _, _)
DeliverAll(m, ch, evs, ans) ==
    IF evs = <<>> \/ ch.err \/ ch.panic THEN ch
    ELSE DeliverAll(m, Chained(m, ch, Head(evs),
                               Deliver(m, ch.ad, ch.sink, Head(evs), ans)),
                    Tail(evs), ans)

-----------------------------------------------------------------------------
(* Initial states *)

\* number of get calls the lone client of the byte source makes after get has
\* returned end-of-stream
MaxAfterEos == 2

\* the json2xml process while main runs
ProcessNew == [exited |-> FALSE, stderr |-> <<>>, code |-> 0]

\* ByteSource::new, JSONLexer::new, JSONLexerToParser::new, JSON2XMLConsumer::new
\* and the locals of lex, for a pass in mode m; a configuration is a family of inputs and the
\* lexer's ignore_unicode_errs
InitFor(m, configs) ==
    /\ mode = m
    /\ \E cf \in configs :
          /\ alpha = cf[1]
          /\ lexer = [line |-> 0, column |-> 0, ignore_unicode_errs |-> cf[2]]
    /\ source = [stream |-> <<>>, reads |-> 0, ended |-> FALSE]
    /\ byte_source = ByteSourceNew
    /\ bsLog = <<"new", "new">>
    /\ locals = LocalsNew
    /\ pc = IF m \in {"bs", "sink"} THEN m ELSE "new"
    /\ result = "None"
    /\ adapter = AdapterNew
    /\ lexOut = <<>>
    /\ parOut = <<>>
    /\ adapterTrace = <<>>
    /\ aborted = FALSE
    /\ sink = SinkNew
    /\ client = [seq |-> <<>>, eos |-> FALSE, afterEos |-> 0]
    /\ process = ProcessNew

-----------------------------------------------------------------------------
(* Actions of a lex / parse pass *)

\* a lex without `?` after consume: it goes on whatever consume returned
HandedOn(ch, next) ==
    /\ adapter' = ch.ad
    /\ lexOut' = ch.lexOut
    /\ parOut' = ch.parOut
    /\ adapterTrace' = ch.trace
    /\ aborted' = (aborted \/ ch.abort)
    /\ sink' = ch.sink
    /\ pc' = next
    /\ result' = IF next = "returned" THEN "Ok" ELSE "None"

\* the variables of the consumer chain after lex handed over evs, and lex's
\* own continuation: `next` when every consume returned Ok
Handed(ch, next) ==
    /\ adapter' = ch.ad
    /\ lexOut' = ch.lexOut
    /\ parOut' = ch.parOut
    /\ adapterTrace' = ch.trace
    /\ aborted' = ch.abort
    /\ sink' = ch.sink
    /\ pc' = IF ch.err \/ ch.panic THEN "returned" ELSE next
    /\ result' = IF ch.panic THEN "Panic"
                 ELSE IF ch.err THEN "Err"
                 ELSE IF next = "returned" THEN "Ok" ELSE "None"

ChainNow == Chain(adapter, sink, lexOut, parOut, adapterTrace, FALSE, FALSE, FALSE)

\* the chain when the iteration itself panicked before handing anything over
ChainPanicked == [ChainNow EXCEPT !.panic = TRUE]

\* the ungets of an iteration that take effect although a consume in it
\* returned Err: only the Expect arm calls unget before it consumes
UngetsDone(l, st, ch) ==
    IF ch.err \/ ch.panic THEN (IF l.state = "Expect" THEN st.ungets ELSE 0)
    ELSE st.ungets

\* lex line 186: consumer.consume(Ok(BeginFile), line, column)?
LexBegin ==
    /\ pc = "new"
    /\ \E ans \in BOOLEAN :
          Handed(DeliverAll(mode, ChainNow,
                            <<AtPosition(Item("Ok", "BeginFile", <<>>), lexer)>>, ans),
                 "loop")
    /\ UNCHANGED <<mode, alpha, source, byte_source, bsLog, lexer, locals, client,
                 process>>

\* one iteration of the loop: get returns Some(byte), the byte is dispatched
LexStep ==
    /\ pc = "loop"
    /\ \E rd \in (IF NeedsRead(byte_source)
                  THEN ReadOutcomes(source, alpha, mode) \ { <<>> } ELSE { <<>> }),
          ans \in BOOLEAN :
          LET g == BSGet(byte_source, rd)
              byte == g.ret[1]
              lx == LexerAfterByte(lexer, byte)
              st == LexByte(locals, byte, lexer.ignore_unicode_errs)
              evs == [k \in 1..Len(st.items) |-> AtPosition(st.items[k], lx)]
              ch0 == IF st.panic THEN ChainPanicked
                     ELSE DeliverAll(mode, ChainNow, evs, ans)
              n == UngetsDone(locals, st, ch0)
              ch == IF n > 0 /\ BSUngetPanics(g.bs) THEN [ch0 EXCEPT !.panic = TRUE]
                    ELSE ch0
          IN  /\ source' = IF NeedsRead(byte_source) THEN SourceAfter(source, rd) ELSE source
              /\ lexer' = lx
              /\ locals' = st.l
              /\ byte_source' = IF ch.panic THEN g.bs ELSE BSUngetTimes(g.bs, n)
              /\ bsLog' = LogUngets(LogOp(bsLog, "get"), n)
              /\ Handed(ch, "loop")
    /\ UNCHANGED <<mode, alpha, client, process>>

\* get returns None: the loop ends and `match state` closes the sub-state
LexEos ==
    /\ pc = "loop"
    /\ NeedsRead(byte_source)
    /\ \E ans \in BOOLEAN :
          LET g == BSGet(byte_source, <<>>)
              evs == [k \in 1..Len(LexFinish(locals)) |->
                         AtPosition(LexFinish(locals)[k], lexer)]
          IN  /\ source' = SourceAfter(source, <<>>)
              /\ byte_source' = g.bs
              /\ bsLog' = LogOp(bsLog, "eos")
              /\ Handed(DeliverAll(mode, ChainNow, evs, ans), "endfile")
    /\ UNCHANGED <<mode, alpha, lexer, locals, client,
                 process>>

\* a lex that returns at the end of the stream without consuming EndFile
LexEndFileOmitted ==
    /\ pc = "endfile"
    /\ Handed(ChainNow, "returned")
    /\ UNCHANGED <<mode, alpha, source, byte_source, bsLog, lexer, locals, client,
                 process>>

\* lex lines 599-600: consumer.consume(Ok(EndFile), line, column)?; Ok(())
LexEndFile ==
    /\ pc = "endfile"
    /\ \E ans \in BOOLEAN :
          Handed(DeliverAll(mode, ChainNow,
                            <<AtPosition(Item("Ok", "EndFile", <<>>), lexer)>>, ans),
                 "returned")
    /\ UNCHANGED <<mode, alpha, source, byte_source, bsLog, lexer, locals, client,
                 process>>

\* inside get, source.read returns Err(_): get stays in its loop and retries
ReadErr ==
    /\ pc \in {"loop", "bs"}
    /\ NeedsRead(byte_source)
    /\ ~source.ended
    /\ byte_source.retries < MaxRetry
    /\ byte_source' = BSReadErr(byte_source)
    /\ UNCHANGED <<mode, alpha, source, bsLog, lexer, locals, pc, result, adapter,
                   lexOut, parOut, adapterTrace, aborted, sink, client,
                   process>>

NextLex == LexBegin \/ LexStep \/ LexEos \/ LexEndFile \/ ReadErr

-----------------------------------------------------------------------------
(* Actions of a caller that drives the XML sink alone: it hands over the     *)
(* events of a document that is an array of one string.                      *)

\* the pieces the string values handed to the sink are made of
Pieces ==
    { CDATA_CLOSE, <<Ch.rbracket>>, <<Ch.gt>>, <<Ch.a>>, <<Ch.lt>>, <<Ch.amp>>,
      <<Ch.quote>>, <<Ch.apos>> }

\* number of pieces in a string value
MaxPieces == 3

\* the texts of at most n pieces
RECURSIVE Texts(_)
Texts(n) ==
    IF n = 0 THEN { <<>> }
    ELSE Texts(n - 1) \cup { t \o q : t \in Texts(n - 1), q \in Pieces }

\* what the caller may hand over after the events evs
SinkClientChoices(evs) ==
    IF evs = <<>> THEN { Tok("BeginFile", <<>>) }
    ELSE CASE evs[Len(evs)].name = "BeginFile" -> { Tok("BeginArray", <<>>) }
           [] evs[Len(evs)].name = "BeginArray" ->
                 { Tok("StringValue", t) : t \in Texts(MaxPieces) }
           [] evs[Len(evs)].name = "StringValue" -> { Tok("EndArray", <<>>) }
           [] evs[Len(evs)].name = "EndArray" -> { Tok("EndFile", <<>>) }
           [] OTHER -> {}

\* consumer.consume(token) did x
SinkClientConsumed(ev, x) ==
    /\ sink' = x.sk
    /\ parOut' = Append(parOut, ev)
    /\ aborted' = (x.ret = "Err")

SinkClientConsume ==
    /\ pc = "sink"
    /\ ~aborted
    /\ \E ev \in SinkClientChoices(parOut), io \in BOOLEAN :
          SinkClientConsumed(ev, SinkConsume(sink, ev, io))
    /\ UNCHANGED <<mode, alpha, source, byte_source, bsLog, lexer, locals, pc, result,
                   adapter, lexOut, adapterTrace, client, process>>

NextSink == SinkClientConsume

-----------------------------------------------------------------------------
(* The json2xml command (bin/json2xml.rs) *)

\* main lines 88-92, r being what parse returned: `match r`, then main
\* returns (); a panic inside parse unwinds main instead, and the process
\* ends with the code 101 of a panicked main thread
MainReturns(r) ==
    CASE r = "Ok" -> [exited |-> TRUE, stderr |-> <<>>, code |-> 0]
      [] r = "Err" -> [exited |-> TRUE, stderr |-> <<"Err ConsumeError">>, code |-> 0]
      [] OTHER -> [exited |-> TRUE, stderr |-> <<"panicked">>, code |-> 101]

\* parse has returned to main, and main ends
MainExit ==
    /\ mode = "xml"
    /\ pc = "returned"
    /\ ~process.exited
    /\ process' = MainReturns(result)
    /\ UNCHANGED <<mode, alpha, source, byte_source, bsLog, lexer, locals, pc, result,
                   adapter, lexOut, parOut, adapterTrace, aborted, sink, client>>

NextCli == NextLex \/ MainExit

-----------------------------------------------------------------------------
(* Actions of a caller that drives the byte source alone.  It keeps to the  *)
(* contract of unget: only directly after a get that returned a byte.       *)

\* the caller's view after get returned ret: seq is what it has read and not
\* pushed back
ClientAfterGet(cl, ret) ==
    IF ret = <<>> THEN [cl EXCEPT !.eos = TRUE,
                                  !.afterEos = IF cl.eos THEN cl.afterEos + 1 ELSE cl.afterEos]
    ELSE [cl EXCEPT !.seq = cl.seq \o ret,
                    !.afterEos = IF cl.eos THEN cl.afterEos + 1 ELSE cl.afterEos]

ClientGet ==
    /\ pc = "bs"
    /\ client.eos => client.afterEos < MaxAfterEos
    /\ \E rd \in (IF NeedsRead(byte_source) THEN ReadOutcomes(source, alpha, mode) ELSE { <<>> }) :
          LET g == BSGet(byte_source, rd)
          IN  /\ source' = IF NeedsRead(byte_source) THEN SourceAfter(source, rd) ELSE source
              /\ byte_source' = g.bs
              /\ bsLog' = LogOp(bsLog, IF g.ret = <<>> THEN "eos" ELSE "get")
              /\ client' = ClientAfterGet(client, g.ret)
    /\ UNCHANGED <<mode, alpha, lexer, locals, pc, result, adapter, lexOut, parOut,
                   adapterTrace, aborted, sink, process>>

ClientUnget ==
    /\ pc = "bs"
    /\ bsLog[2] = "get"
    /\ byte_source.retries = 0
    /\ ~BSUngetPanics(byte_source)
    /\ byte_source' = BSUnget(byte_source)
    /\ bsLog' = LogOp(bsLog, "unget")
    /\ client' = [client EXCEPT !.seq = SubSeq(client.seq, 1, Len(client.seq) - 1)]
    /\ UNCHANGED <<mode, alpha, source, lexer, locals, pc, result, adapter, lexOut,
                   parOut, adapterTrace, aborted, sink, process>>

NextBS == ClientGet \/ ClientUnget \/ ReadErr

-----------------------------------------------------------------------------
(* Specifications *)

\* a lex pass with a JSONLexConsumer of the caller
InitLex ==
    InitFor("lex", { <<"word", FALSE>>, <<"num", FALSE>>, <<"str", FALSE>>,
                     <<"uni", FALSE>>, <<"uni", TRUE>>, <<"arr", FALSE>> })
SpecLex == InitLex /\ [][NextLex]_vars

\* a lex pass that is not left unfinished: the caller of lex waits for it, so
\* whenever an iteration, the end of the stream or a retry is possible, one
\* of them happens.  Its inputs are made of the bytes after which the lexer
\* pushes a byte back.
InitLexFair == InitFor("lex", { <<"back", FALSE>> })
SpecLexFair == InitLexFair /\ [][NextLex]_vars /\ WF_vars(NextLex)

\* a lex pass over strings made of surrogate escapes
InitPair == InitFor("lex", { <<"pair", FALSE>>, <<"pair", TRUE>> })
SpecPair == InitPair /\ [][NextLex]_vars

\* a parse pass: lexer, adapter, and a JSONParseConsumer of the caller
InitParse == InitFor("parse", { <<"json", FALSE>>, <<"jerr", FALSE>> })
SpecParse == InitParse /\ [][NextLex]_vars

\* a parse pass into the XML sink: lexer, adapter, JSON2XMLConsumer
InitXml == InitFor("xml", { <<"xml", FALSE>> })
SpecXml == InitXml /\ [][NextLex]_vars

\* the json2xml command: main builds the parser with ignore_unicode_errs and
\* parses into a JSON2XMLConsumer
InitCli == InitFor("xml", { <<"xml", TRUE>> })
SpecCli == InitCli /\ [][NextCli]_vars

\* the XML sink driven by a caller of consume
InitSink == InitFor("sink", { <<"none", FALSE>> })
SpecSink == InitSink /\ [][NextSink]_vars

\* both
Init == InitLex \/ InitParse
Next == NextLex
Spec == Init /\ [][Next]_vars

\* the byte source driven by a caller of get and unget
InitBS == InitFor("bs", { <<"bytes", FALSE>> })
SpecBS == InitBS /\ [][NextBS]_vars

-----------------------------------------------------------------------------
(* Properties of the event streams *)

\* the positions of evs that hold token `name`
Where(evs, name) == { k \in 1..Len(evs) : IsTok(evs[k], name) }

\* the positions of evs that hold an error
Errors(evs) == { k \in 1..Len(evs) : IsErr(evs[k]) }

\* evs is bracketed: one BeginFile, first, and one EndFile, last
Bracketed(evs) ==
    /\ Where(evs, "BeginFile") = {1}
    /\ Where(evs, "EndFile") = {Len(evs)}

\* a pass has returned to its caller and the caller's consumer never aborted
ReturnedUnaborted == pc = "returned" /\ ~aborted

IsValueStart(ev) ==
    /\ ev.kind = "Ok"
    /\ ev.name \in {"BooleanValue", "NullValue", "IntValue", "FloatValue",
                    "StringValue", "BeginObject", "BeginArray"}

\* The containers open after evs[1..k-1], innermost last: "A" an array, "K" an
\* object where a key may come, "V" an object whose last key awaits its value.
\* Error events are skipped.
RECURSIVE Open(_, _)
Open(evs, k) ==
    IF k = 0 THEN <<>>
    ELSE LET st == Open(evs, k - 1)
             ev == evs[k]
             n == Len(st)
             \* the enclosing object has got the value of its key
             valued == IF n > 0 /\ st[n] = "V" THEN [st EXCEPT ![n] = "K"] ELSE st
         IN  IF IsErr(ev) THEN st
             ELSE CASE ev.name = "Key" ->
                         IF n > 0 THEN [st EXCEPT ![n] = "V"] ELSE st
                    [] ev.name = "BeginObject" -> Append(valued, "K")
                    [] ev.name = "BeginArray" -> Append(valued, "A")
                    [] ev.name \in {"EndObject", "EndArray"} ->
                         IF n > 0 THEN SubSeq(st, 1, n - 1) ELSE st
                    [] IsValueStart(ev) -> valued
                    [] OTHER -> st

\* the innermost open container before evs[k], "" at top level
Innermost(evs, k) ==
    IF Open(evs, k - 1) = <<>> THEN "" ELSE Open(evs, k - 1)[Len(Open(evs, k - 1))]

\* every Key comes where an object awaits a key, and what comes where an object
\* awaits the value of a key is a value (errors aside)
KeyDiscipline(evs) ==
    \A k \in 1..Len(evs) :
        ~IsErr(evs[k]) =>
            /\ IsTok(evs[k], "Key") => Innermost(evs, k) = "K"
            /\ Innermost(evs, k) = "V" => IsValueStart(evs[k])

\* every End closes the innermost open container, of its own type; inside an
\* object, values come only after a key; at the end nothing is left open
WellNested(evs) ==
    /\ \A k \in 1..Len(evs) :
          /\ IsTok(evs[k], "EndObject") => Innermost(evs, k) = "K"
          /\ IsTok(evs[k], "EndArray") => Innermost(evs, k) = "A"
          /\ IsValueStart(evs[k]) => Innermost(evs, k) # "K"
    /\ Open(evs, Len(evs)) = <<>>

-----------------------------------------------------------------------------
(* RFC 8259: is a byte sequence one JSON text?  Each P... gives the position *)
(* after what it recognises from position i on, 0 when it does not.         *)

ByteAt(s, i) == IF 1 <= i /\ i <= Len(s) THEN s[i] ELSE -1

RECURSIVE SkipWs(_, _)
SkipWs(s, i) ==
    IF ByteAt(s, i) \in {Ch.SP, Ch.TAB, Ch.LF, Ch.CR} THEN SkipWs(s, i + 1) ELSE i

RECURSIVE SkipDigits(_, _)
SkipDigits(s, i) == IF IsDigit(ByteAt(s, i)) THEN SkipDigits(s, i + 1) ELSE i

\* 1*DIGIT from i, else 0
PDigits(s, i) == IF i # 0 /\ SkipDigits(s, i) > i THEN SkipDigits(s, i) ELSE 0

PWord(s, i, w) ==
    IF i + Len(w) - 1 <= Len(s) /\ SubSeq(s, i, i + Len(w) - 1) = w THEN i + Len(w) ELSE 0

\* number = [ minus ] int [ frac ] [ exp ]
PNumber(s, i) ==
    LET a == IF ByteAt(s, i) = Ch.minus THEN i + 1 ELSE i
        b == IF ByteAt(s, a) = Ch.d0 THEN a + 1
             ELSE IF IsDigit19(ByteAt(s, a)) THEN SkipDigits(s, a) ELSE 0
        c == IF b # 0 /\ ByteAt(s, b) = Ch.dot THEN PDigits(s, b + 1) ELSE b
        d == IF c # 0 /\ ByteAt(s, c) \in {Ch.e, Ch.E}
             THEN PDigits(s, IF ByteAt(s, c + 1) \in {Ch.plus, Ch.minus} THEN c + 2 ELSE c + 1)
             ELSE c
    IN  d

IsHexByte(byte) ==
    IsDigit(byte) \/ (Ch.a <= byte /\ byte <= Ch.f) \/ (Ch.A <= byte /\ byte <= Ch.F)

\* the rest of a string, i being just after the opening quotation mark
RECURSIVE PChars(_, _)
PChars(s, i) ==
    LET c == ByteAt(s, i)
    IN  IF c = -1 \/ (0 <= c /\ c < 32) THEN 0
        ELSE IF c = Ch.quote THEN i + 1
        ELSE IF c = Ch.backslash
        THEN IF ByteAt(s, i + 1) \in {Ch.quote, Ch.backslash, Ch.slash, Ch.b, Ch.f,
                                      Ch.n, Ch.r, Ch.t}
             THEN PChars(s, i + 2)
             ELSE IF ByteAt(s, i + 1) = Ch.u
                     /\ \A j \in (i + 2)..(i + 5) : IsHexByte(ByteAt(s, j))
             THEN PChars(s, i + 6)
             ELSE 0
        ELSE PChars(s, i + 1)

RECURSIVE PValue(_, _), PElements(_, _), PMembers(_, _)
\* value, i being at its first byte
PValue(s, i) ==
    LET c == ByteAt(s, i)
    IN  CASE c = Ch.lbrace ->
                IF ByteAt(s, SkipWs(s, i + 1)) = Ch.rbrace THEN SkipWs(s, i + 1) + 1
                ELSE PMembers(s, SkipWs(s, i + 1))
          [] c = Ch.lbracket ->
                IF ByteAt(s, SkipWs(s, i + 1)) = Ch.rbracket THEN SkipWs(s, i + 1) + 1
                ELSE PElements(s, SkipWs(s, i + 1))
          [] c = Ch.quote -> PChars(s, i + 1)
          [] c = Ch.t -> PWord(s, i, <<Ch.t, Ch.r, Ch.u, Ch.e>>)
          [] c = Ch.f -> PWord(s, i, <<Ch.f, Ch.a, Ch.l, Ch.s, Ch.e>>)
          [] c = Ch.n -> PWord(s, i, <<Ch.n, Ch.u, Ch.l, Ch.l>>)
          [] c = Ch.minus \/ IsDigit(c) -> PNumber(s, i)
          [] OTHER -> 0

\* value *( ws "," ws value ) ws "]"
PElements(s, i) ==
    LET v == PValue(s, i)
        j == SkipWs(s, v)
    IN  IF v = 0 THEN 0
        ELSE IF ByteAt(s, j) = Ch.comma THEN PElements(s, SkipWs(s, j + 1))
        ELSE IF ByteAt(s, j) = Ch.rbracket THEN j + 1
        ELSE 0

\* string ws ":" ws value *( ws "," ws member ) ws "}"
PMembers(s, i) ==
    LET k == IF ByteAt(s, i) = Ch.quote THEN PChars(s, i + 1) ELSE 0
        c == SkipWs(s, k)
        v == IF k # 0 /\ ByteAt(s, c) = Ch.colon THEN PValue(s, SkipWs(s, c + 1)) ELSE 0
        j == SkipWs(s, v)
    IN  IF v = 0 THEN 0
        ELSE IF ByteAt(s, j) = Ch.comma THEN PMembers(s, SkipWs(s, j + 1))
        ELSE IF ByteAt(s, j) = Ch.rbrace THEN j + 1
        ELSE 0

\* JSON-text = ws value ws, in UTF-8
IsValidJSON(s) ==
    /\ from_utf8_ok(s)
    /\ PValue(s, SkipWs(s, 1)) # 0
    /\ SkipWs(s, PValue(s, SkipWs(s, 1))) = Len(s) + 1

-----------------------------------------------------------------------------
(* The lexer's sentinels *)

-----------------------------------------------------------------------------
(* The parser's sentinels *)

-----------------------------------------------------------------------------
(* Valid input *)

\* C3 as stated: when the bytes read are one valid JSON text (RFC 8259), the
\* parser events hold no error, every Begin is matched by its End at the same
\* nesting level, and Keys alternate with values directly inside objects.
C3_ValidInputParses ==
    (mode = "parse" /\ ReturnedUnaborted /\ IsValidJSON(source.stream)) =>
        /\ Errors(parOut) = {}
        /\ WellNested(parOut)
        /\ KeyDiscipline(parOut)

-----------------------------------------------------------------------------
(* Abort and errors *)

\* C4: once the caller's consumer has returned ConsumeError (on a token or on
\* an error, in a lex or in a parse pass), lex / parse has returned Err, and no
\* further event is delivered, EndFile included.
C4_AbortIsFinal ==
    /\ [](aborted => pc = "returned" /\ result = "Err")
    /\ [][aborted => lexOut' = lexOut /\ parOut' = parOut]_vars

\* the parser consumer aborted on an error event
C4_Witness ==
    /\ mode = "parse"
    /\ aborted
    /\ result = "Err"
    /\ IsErr(parOut[Len(parOut)])
    /\ ~source.ended

\* C5 as stated: in a parse pass whose consumer answers Ok to every event, the
\* pipeline reads to end-of-stream and parse returns Ok.
C5_OnlyAbortIsFatal ==
    (mode = "parse" /\ ReturnedUnaborted) => result = "Ok" /\ source.ended

\* C5: in a parse pass whose consumer answers Ok to every event, parse errors
\* do not stop the pipeline, which reads to end-of-stream and returns Ok as
\* long as the lexer reports no lexical error; the first lexical error ends
\* the pass, and parse returns Err.
C5_LexicalErrorIsFatal ==
    (mode = "parse" /\ ~aborted) =>
        /\ Errors(lexOut) # {} => pc = "returned" /\ result = "Err"
        /\ (Errors(lexOut) = {} /\ pc = "returned") => result = "Ok" /\ source.ended

\* a parse error was delivered and tolerated, and the pass went on to EndFile
C5_Witness ==
    /\ mode = "parse"
    /\ ReturnedUnaborted
    /\ result = "Ok"
    /\ Errors(parOut) # {}
    /\ IsTok(parOut[Len(parOut)], "EndFile")

\* C6: a lexical error is the last event the lexer delivers; the parser
\* consumer receives exactly one error event with its message, line and
\* column, as its last event, and parse returns Err.
C6_LexicalErrorForwarded ==
    mode = "parse" =>
        \A k \in Errors(lexOut) :
            /\ k = Len(lexOut)
            /\ pc = "returned" /\ result = "Err"
            /\ parOut # <<>>
            /\ parOut[Len(parOut)] = ParseError(lexOut[k].name, lexOut[k].val,
                                                lexOut[k].line, lexOut[k].column)
            /\ Cardinality({ j \in 1..Len(parOut) :
                               /\ IsErr(parOut[j])
                               /\ parOut[j].name = lexOut[k].name
                               /\ parOut[j].line = lexOut[k].line
                               /\ parOut[j].column = lexOut[k].column }) = 1

\* a lexical error inside an array, answered Ok by the consumer: the pass ends
\* there all the same
C6_Witness ==
    /\ mode = "parse"
    /\ ~aborted
    /\ Errors(lexOut) # {}
    /\ adapter.state = "InArraySep"
    /\ lexOut[Len(lexOut)].column > 2
    /\ ~source.ended

-----------------------------------------------------------------------------
(* Keys and the translation of tokens *)

\* C7: on every input, a Key is forwarded only where the innermost open
\* container is an object awaiting a key, and the next event that is not an
\* error after a Key is a scalar, BeginObject or BeginArray.
C7_KeyThenValue == mode = "parse" => KeyDiscipline(parOut)

\* a Key, a parse error, then the value of the key
C7_Witness ==
    /\ mode = "parse"
    /\ \E k \in 1..(Len(parOut) - 2) :
          /\ IsTok(parOut[k], "Key")
          /\ IsErr(parOut[k + 1])
          /\ IsTok(parOut[k + 2], "IntValue")

\* what the adapter forwards for the error-free tokens evs[1..k], received in
\* the states tr[1..k]
RECURSIVE Translate(_, _, _)
Translate(evs, tr, k) ==
    IF k = 0 THEN <<>>
    ELSE LET ev == evs[k]
         IN  Translate(evs, tr, k - 1) \o
                (CASE ev.name \in {"NameSeparator", "ValueSeparator"} -> <<>>
                   [] ev.name = "String" ->
                        <<Tok(IF tr[k] = "InObject" THEN "Key" ELSE "StringValue", ev.val)>>
                   [] OTHER -> <<Tok(ev.name, ev.val)>>)

\* C8 as stated: for every error-free lexer stream the parser stream is the
\* lexer stream without separators, String being Key in state InObject and
\* StringValue elsewhere.
C8_Translation ==
    (mode = "parse" /\ Errors(lexOut) = {}) =>
        parOut = Translate(lexOut, adapterTrace, Len(lexOut))

\* C8: for every error-free lexer stream on which the adapter raises no parse
\* error, the parser stream is the lexer stream without separators, String
\* being Key in state InObject and StringValue elsewhere, all else unchanged
\* and in order.
C8_TranslationOfAccepted ==
    (mode = "parse" /\ Errors(lexOut) = {} /\ Errors(parOut) = {}) =>
        parOut = Translate(lexOut, adapterTrace, Len(lexOut))

\* a whole object with a string as key and a string as value
C8_Witness ==
    /\ mode = "parse"
    /\ Errors(lexOut) = {} /\ Errors(parOut) = {}
    /\ Where(lexOut, "NameSeparator") # {}
    /\ Where(parOut, "Key") # {}
    /\ Where(parOut, "StringValue") # {}
    /\ IsTok(parOut[Len(parOut)], "EndFile")

-----------------------------------------------------------------------------
(* The byte source *)

\* what the byte source holds and has not yet returned
Pending(bs) ==
    bs.unget_byte \o (IF bs.retries > 0 THEN <<>> ELSE SubSeq(bs.buffer, bs.i + 1, bs.limit))

\* C9: between the calls of get and up to the first end-of-stream, the bytes the caller has got and not
\* pushed back, followed by what the byte source holds, are the bytes read
\* from the stream: a get after unget returns the byte again, also across a
\* refill, and the following gets continue with no byte lost or duplicated.
C9_UngetThenGet ==
    mode = "bs" =>
        /\ ~client.eos => client.seq \o Pending(byte_source) = source.stream
        /\ (client.eos /\ client.afterEos = 0) => client.seq = source.stream
        /\ (bsLog[2] = "get" /\ byte_source.retries = 0) => ~BSUngetPanics(byte_source)

\* the byte that a refill brought was pushed back and got again
C9_Witness ==
    /\ mode = "bs"
    /\ bsLog = <<"unget", "get">>
    /\ byte_source.i = 1
    /\ source.reads >= 2
    /\ Len(client.seq) >= 2
    /\ byte_source.limit >= 2

\* C10: the lexer calls unget only directly after a get that returned a byte:
\* never twice in a row, never after end-of-stream, never before the first
\* get; and no unget fails.
C10_OneByteLookahead ==
    mode = "lex" =>
        /\ bsLog[2] = "unget" => bsLog[1] = "get"
        /\ result # "Panic"

\* the byte after a high surrogate is no backslash and is pushed back
C10_Witness ==
    /\ mode = "lex"
    /\ bsLog = <<"get", "unget">>
    /\ lexOut # <<>>
    /\ lexOut[Len(lexOut)].name = "Waiting for low surrogate: needs backslash, got"
    /\ byte_source.unget_byte # <<>>

-----------------------------------------------------------------------------
(* Keywords *)

\* the lexer has matched all the bytes of true, false or null and has not yet
\* emitted the token
KeywordMatched ==
    locals.state = "Expect" /\ locals.expected_index = Len(locals.expect)

\* the last event delivered before EndFile, once the stream has ended
LastBeforeEndFile ==
    lexOut[IF pc = "returned" THEN Len(lexOut) - 1 ELSE Len(lexOut)]

-----------------------------------------------------------------------------
(* Numbers *)

\* How s matches -?(0|[1-9][0-9]*)(\.[0-9]+)?([eE]-?[0-9]+)?: whether it does
\* in full, and whether the match has a fraction, an exponent
NumberText(s) ==
    LET a == IF ByteAt(s, 1) = Ch.minus THEN 2 ELSE 1
        b == IF ByteAt(s, a) = Ch.d0 THEN a + 1
             ELSE IF IsDigit19(ByteAt(s, a)) THEN SkipDigits(s, a) ELSE 0
        frac == b # 0 /\ ByteAt(s, b) = Ch.dot
        c == IF frac THEN PDigits(s, b + 1) ELSE b
        exp == c # 0 /\ ByteAt(s, c) \in {Ch.e, Ch.E}
        d == IF exp
             THEN PDigits(s, IF ByteAt(s, c + 1) = Ch.minus THEN c + 2 ELSE c + 1)
             ELSE c
    IN  [full |-> d = Len(s) + 1, frac |-> frac, exp |-> exp]

\* C12: the text of every IntValue and of every FloatValue the lexer delivers
\* matches -?(0|[1-9][0-9]*)(\.[0-9]+)?([eE]-?[0-9]+)? in full; that of an
\* IntValue has neither fraction nor exponent, that of a FloatValue has one
\* of them at least.
C12_NumberTexts ==
    \A k \in 1..Len(lexOut) :
        /\ IsTok(lexOut[k], "IntValue") =>
              /\ NumberText(lexOut[k].val).full
              /\ ~NumberText(lexOut[k].val).frac
              /\ ~NumberText(lexOut[k].val).exp
        /\ IsTok(lexOut[k], "FloatValue") =>
              /\ NumberText(lexOut[k].val).full
              /\ NumberText(lexOut[k].val).frac \/ NumberText(lexOut[k].val).exp

\* a float with a negative exponent was delivered at the end of the stream
C12_Witness ==
    /\ mode = "lex"
    /\ pc = "returned"
    /\ \E k \in 1..Len(lexOut) :
          /\ IsTok(lexOut[k], "FloatValue")
          /\ NumberText(lexOut[k].val).exp
          /\ lexOut[k].val[Len(lexOut[k].val) - 1] = Ch.minus

-----------------------------------------------------------------------------
(* Lexing and re-emitting *)

\* the bytes a lexer token is re-emitted as: the text of a scalar, the
\* punctuation mark of a structural token
Reemit(ev) ==
    CASE ev.name \in {"IntValue", "FloatValue"} -> ev.val
      [] ev.name = "String" -> <<Ch.quote>> \o ev.val \o <<Ch.quote>>
      [] ev.name = "BooleanValue" ->
            IF ev.val = <<1>> THEN <<Ch.t, Ch.r, Ch.u, Ch.e>>
            ELSE <<Ch.f, Ch.a, Ch.l, Ch.s, Ch.e>>
      [] ev.name = "NullValue" -> <<Ch.n, Ch.u, Ch.l, Ch.l>>
      [] ev.name = "BeginArray" -> <<Ch.lbracket>>
      [] ev.name = "EndArray" -> <<Ch.rbracket>>
      [] ev.name = "BeginObject" -> <<Ch.lbrace>>
      [] ev.name = "EndObject" -> <<Ch.rbrace>>
      [] ev.name = "NameSeparator" -> <<Ch.colon>>
      [] ev.name = "ValueSeparator" -> <<Ch.comma>>
      [] OTHER -> <<>>

\* the tokens evs[1..k] re-emitted; an error re-emits nothing
RECURSIVE ReemitAll(_, _)
ReemitAll(evs, k) ==
    IF k = 0 THEN <<>>
    ELSE ReemitAll(evs, k - 1) \o (IF IsErr(evs[k]) THEN <<>> ELSE Reemit(evs[k]))

IsWs(byte) == byte \in {Ch.SP, Ch.TAB, Ch.LF, Ch.CR}

\* s without its whitespace, for a text whose strings hold none
StripWs(s) == SelectSeq(s, LAMBDA byte : ~IsWs(byte))

\* s is a JSON text made of one scalar or of one array of scalars, its
\* strings written without escapes
IsScalarsDocument(s) ==
    /\ IsValidJSON(s)
    /\ Cardinality({ k \in 1..Len(s) : s[k] = Ch.lbracket }) <= 1
    /\ \A k \in 1..Len(s) : s[k] \notin {Ch.lbrace, Ch.backslash}

\* C13 as stated: when the bytes lexed are a JSON text made only of scalars
\* and arrays of scalars (strings without escapes), the tokens delivered, re-emitted, are those bytes
\* without the whitespace.
C13_LexRoundTrip ==
    (mode = "lex" /\ ReturnedUnaborted /\ IsScalarsDocument(source.stream)) =>
        ReemitAll(lexOut, Len(lexOut)) = StripWs(source.stream)

-----------------------------------------------------------------------------
(* End of the stream *)

\* the stream has ended, the finalisation has run, and the consumer never
\* aborted; the locals are those the loop left
Finalised == mode = "lex" /\ ~aborted /\ pc \in {"endfile", "returned"}

\* the event that closed the active sub-state is ev
ClosedBy(ev) == LastBeforeEndFile = AtPosition(ev, lexer)

-----------------------------------------------------------------------------
(* EndFile inside a container *)

ParserStates ==
    {"Undefined", "None", "InObject", "InObjectMember", "InObjectMemberValue",
     "InObjectSep", "InArray", "InArraySep"}

\* the lexer's EndFile has reached the adapter while a container was open
EndFileInContainer ==
    /\ mode = "parse"
    /\ lexOut # <<>>
    /\ IsTok(lexOut[Len(lexOut)], "EndFile")
    /\ adapterTrace[Len(lexOut)] \notin {"None", "Undefined"}

\* C15 as stated: when EndFile reaches the adapter while a container is open,
\* the adapter delivers a parse error `Should be closed: <state>` naming a
\* state, and does not forward EndFile.
C15_ShouldBeClosed ==
    EndFileInContainer =>
        /\ IsErr(parOut[Len(parOut)])
        /\ parOut[Len(parOut)].name \in { "Should be closed: " \o st : st \in ParserStates }
        /\ Where(parOut, "EndFile") = {}

-----------------------------------------------------------------------------
(* Positions *)

\* the number of bytes of the stream that get has returned so far, a byte
\* that was pushed back and returned again counting once: what was read from
\* the stream less what the buffer still holds beyond the read position
BytesConsumed ==
    IF bsLog[2] = "eos" \/ byte_source.retries > 0 THEN Len(source.stream)
    ELSE Len(source.stream) - (byte_source.limit - byte_source.i)

\* C16 as stated: whenever the lexer delivers an event, the column it reports
\* is the number of bytes of the stream consumed so far.
C16_ColumnCountsBytes ==
    [][(mode = "lex" /\ lexOut' # lexOut) =>
          lexOut'[Len(lexOut')].column = BytesConsumed']_vars

-----------------------------------------------------------------------------
(* Surrogate pairs *)

\* the errors for a high surrogate that no valid low surrogate follows
LowSurrogateErrors ==
    {"Waiting for low surrogate: needs backslash, got",
     "Waiting for low surrogate: needs \\u, got",
     "Waiting for low surrogate, got"}

\* C17 as stated: when the lexer delivers the error for a high surrogate that
\* no valid low surrogate follows, it appends U+FFFD to the string buffer if
\* ignore_unicode_errs is set, and appends nothing otherwise.
C17_ReplacementIffIgnored ==
    [][(/\ mode = "lex"
        /\ ~aborted'
        /\ lexOut' # lexOut
        /\ IsErr(lexOut'[Len(lexOut')])
        /\ lexOut'[Len(lexOut')].name \in LowSurrogateErrors) =>
          locals'.buf = locals.buf \o (IF lexer.ignore_unicode_errs
                                       THEN encode_utf8(REPLACEMENT_CHARACTER)
                                       ELSE <<>>)]_vars

-----------------------------------------------------------------------------
(* The XML sink *)

\* write_open (the preamble and <root>) came first and write_close (</root>)
\* last, each once
RootWraps(out) ==
    /\ { k \in 1..Len(out) : out[k].op = "write_open" } = {1}
    /\ { k \in 1..Len(out) : out[k].op = "write_close" } = {Len(out)}

\* a parse into the sink has read its input to the end or has stopped, and the
\* destination took every write
XmlReturned == mode = "xml" /\ pc = "returned" /\ ~sink.io_failed

\* C18 as stated: for every valid JSON document, whatever its top-level value,
\* the sink writes the preamble and <root> first and </root> last, never
\* aborts, and parse returns Ok.
C18_RootWrapsValidDocument ==
    (XmlReturned /\ source.ended /\ IsValidJSON(source.stream)) =>
        /\ RootWraps(sink.out)
        /\ ~aborted
        /\ result = "Ok"

\* the positions of evs that hold a value inside a container, in order: the
\* members of objects and the elements of arrays
Elements(evs) ==
    LET inner(k) == IsValueStart(evs[k]) /\ Innermost(evs, k) # ""
    IN  SelectSeq([k \in 1..Len(evs) |-> k], inner)

\* the calls of out that open an element or write one whole
ElementWrites(out) ==
    LET opens(c) == c.op \in {"write_begin", "write_value", "write_string_value"}
    IN  SelectSeq(out, opens)

\* the name the element of the value evs[k] is to bear: li in an array, the
\* member's key in an object
ElementName(evs, k) == IF Innermost(evs, k) = "A" THEN LI ELSE evs[k - 1].val

\* the write_begin calls of out[1..k] not yet answered by a write_end,
\* innermost last
RECURSIVE OpenElements(_, _)
OpenElements(out, k) ==
    IF k = 0 THEN <<>>
    ELSE LET st == OpenElements(out, k - 1)
         IN  CASE out[k].op = "write_begin" -> Append(st, out[k])
               [] out[k].op = "write_end" ->
                     IF st = <<>> THEN st ELSE SubSeq(st, 1, Len(st) - 1)
               [] OTHER -> st

\* the call c writes the element of the value evs[k]: a container is opened,
\* a scalar is written whole, under the element's name and at its depth
WritesElement(c, evs, k) ==
    /\ c.op = "write_begin" <=> evs[k].name \in {"BeginObject", "BeginArray"}
    /\ c.cur_key = ElementName(evs, k)
    /\ c.size = 4 * Len(Open(evs, k - 1))

\* C19: while the parser events hold no error, what the sink writes is
\* properly nested: every write_end closes the innermost element opened by
\* write_begin, with the same name and the same depth, and after EndFile none
\* is left open; the values inside containers are written in order, a member
\* of an object under its key and an element of an array under li, containers
\* by write_begin and scalars whole; a top-level container writes no element.
C19_ElementsNested ==
    (mode = "xml" /\ Errors(parOut) = {}) =>
        LET out == sink.out
            ws == ElementWrites(out)
            els == Elements(parOut)
        IN  /\ \A k \in 1..Len(out) :
                  out[k].op = "write_end" =>
                      LET st == OpenElements(out, k - 1)
                      IN  /\ st # <<>>
                          /\ st[Len(st)].cur_key = out[k].cur_key
                          /\ st[Len(st)].size = out[k].size
            /\ result = "Ok" => OpenElements(out, Len(out)) = <<>>
            /\ Len(ws) <= Len(els)
            /\ ~sink.io_failed => Len(ws) = Len(els)
            /\ \A j \in 1..Len(ws) : WritesElement(ws[j], parOut, els[j])

\* the document {"a":[1]} has been rendered: the member a opened and closed
\* around the array element li
C19_Witness ==
    /\ mode = "xml" /\ result = "Ok" /\ Errors(parOut) = {}
    /\ \E i, j, k \in 1..Len(sink.out) :
          /\ i < j /\ j < k
          /\ sink.out[i].op = "write_begin" /\ sink.out[i].cur_key = <<Ch.a>>
          /\ sink.out[j].op = "write_value" /\ sink.out[j].cur_key = LI
          /\ sink.out[j].size = 8
          /\ sink.out[k].op = "write_end" /\ sink.out[k].cur_key = <<Ch.a>>

\* C20: the sink answers an error event with ConsumeError and writes nothing
\* for it, and parse returns Err at once; so the first lexical or parse error
\* the sink receives is the last event it receives, and no write_close
\* (</root>) is ever written once an error has been received.
C20_ErrorAborts ==
    /\ [][(mode = "xml" /\ parOut' # parOut /\ IsErr(parOut'[Len(parOut')])) =>
             /\ sink' = sink
             /\ aborted' /\ pc' = "returned" /\ result' = "Err"]_vars
    /\ []((mode = "xml" /\ Errors(parOut) # {}) =>
             /\ Errors(parOut) = {Len(parOut)}
             /\ aborted /\ pc = "returned" /\ result = "Err"
             /\ \A k \in 1..Len(sink.out) : sink.out[k].op # "write_close")

\* an error has reached the sink after it had written an element
C20_Witness ==
    /\ mode = "xml" /\ aborted /\ ~sink.io_failed
    /\ Errors(parOut) # {}
    /\ \E k \in 1..Len(sink.out) : sink.out[k].op = "write_value"

-----------------------------------------------------------------------------
(* The json2xml command *)

\* C21 as stated: the command exits with code zero exactly when the conversion
\* succeeded; when parse returns an error it has printed a message to standard
\* error and exits with a non-zero code.
C21_ExitCode ==
    process.exited =>
        /\ process.code = 0 <=> result = "Ok"
        /\ result = "Err" => process.stderr # <<>> /\ process.code # 0

-----------------------------------------------------------------------------
(* Escaping of string values *)

\* s with every ]]> replaced by ]]]]><![CDATA[>, position by position: the
\* first byte of an occurrence becomes the replacement and its other two
\* bytes vanish
SplitSections(s) ==
    LET at(k) == k >= 1 /\ k + 2 <= Len(s) /\ SubSeq(s, k, k + 2) = CDATA_CLOSE
        RECURSIVE from(_)
        from(k) ==
            IF k > Len(s) THEN <<>>
            ELSE (IF at(k)
                  THEN <<Ch.rbracket, Ch.rbracket, Ch.rbracket, Ch.rbracket, Ch.gt>>
                       \o CDATA_OPEN \o <<Ch.gt>>
                  ELSE IF at(k - 1) \/ at(k - 2) THEN <<>>
                  ELSE <<s[k]>>) \o from(k + 1)
    IN  from(1)

\* what an XML reader makes of t at position k, t being a run of CDATA
\* sections: << the contents of the sections, concatenated >>, or << >> when t
\* is not such a run
RECURSIVE CDataContents(_, _)
CDataContents(t, k) ==
    IF k > Len(t) THEN << <<>> >>
    ELSE IF Find(t, CDATA_OPEN, k) # k THEN <<>>
    ELSE LET b == k + Len(CDATA_OPEN)
             e == Find(t, CDATA_CLOSE, b)
         IN  IF e = 0 THEN <<>>
             ELSE LET rest == CDataContents(t, e + Len(CDATA_CLOSE))
                  IN  IF rest = <<>> THEN <<>>
                      ELSE << SubSeq(t, b, e - 1) \o rest[1] >>

HasSpecial(s) == \E k \in 1..Len(s) : s[k] \in {Ch.lt, Ch.gt, Ch.amp, Ch.quote, Ch.apos}

\* C22: a non-empty string value without any of < > & " ' is written
\* unchanged; any other is written as <![CDATA[ + the text with every ]]>
\* replaced by ]]]]><![CDATA[> + ]]>, and the contents of the CDATA sections
\* written, concatenated, are the original text.
C22_EscapeValue ==
    \A k \in 1..Len(sink.out) :
        (sink.out[k].op = "write_string_value" /\ sink.out[k].value # <<>>) =>
            IF HasSpecial(sink.out[k].value)
            THEN /\ sink.out[k].text =
                       CDATA_OPEN \o SplitSections(sink.out[k].value) \o CDATA_CLOSE
                 /\ CDataContents(sink.out[k].text, 1) = << sink.out[k].value >>
            ELSE sink.out[k].text = sink.out[k].value

\* a string value that holds ]]> twice, the second right after a ], has been
\* written
C22_Witness ==
    \E k \in 1..Len(sink.out) :
        /\ sink.out[k].op = "write_string_value"
        /\ sink.out[k].value = CDATA_CLOSE \o <<Ch.rbracket>> \o CDATA_CLOSE

-----------------------------------------------------------------------------
(* One byte at a time *)

\* the step is an iteration of the loop of lex: only it counts a column
LoopIteration == pc = "loop" /\ lexer'.column = lexer.column + 1

\* the byte that get returns in this iteration
ByteGot ==
    IF NeedsRead(byte_source) THEN source'.stream[Len(source.stream) + 1]
    ELSE BSGet(byte_source, <<>>).ret[1]

\* the events the lexer hands over in this step
NewLexOut == SubSeq(lexOut', Len(lexOut) + 1, Len(lexOut'))

\* the number sub-states in which the bytes seen so far are a whole number
TerminalNumber ==
    /\ locals.state = "Number"
    /\ locals.number_sub_state \in {"ZeroNumberStart", "OtherNumber", "NumberFrac",
                                      "NumberFracExp", "NumberFracExpMinus"}

\* C23 as stated: in a terminal number sub-state, a byte that is neither a
\* digit nor one of . e E (white space and line feed included) ends the
\* number: the token is handed over with exactly the bytes seen so far and the
\* lexer is back in state None, so that later digits start another token.
C23_NumberEndsAtAnyOtherByte ==
    [][(mode = "lex" /\ LoopIteration /\ TerminalNumber
        /\ ~IsDigit(ByteGot) /\ ByteGot \notin {Ch.dot, Ch.e, Ch.E}) =>
            /\ Len(NewLexOut) = 1
            /\ NewLexOut[1].kind = "Ok"
            /\ NewLexOut[1].name \in {"IntValue", "FloatValue"}
            /\ NewLexOut[1].val = locals.buf
            /\ locals'.state = "None"]_vars

\* inside a string, outside an escape, no low surrogate awaited
PlainString ==
    /\ locals.state = "String"
    /\ locals.string_sub_state = "None"
    /\ locals.high = 0

\* C24 as stated: inside a string and outside an escape, every byte other
\* than " and \ is appended to the string buffer unchanged, none is dropped.
C24_StringBytesVerbatim ==
    [][(mode = "lex" /\ LoopIteration /\ PlainString
        /\ ByteGot \notin {Ch.quote, Ch.backslash}) =>
            locals'.buf = Append(locals.buf, ByteGot)]_vars

-----------------------------------------------------------------------------
(* Escapes *)

\* the bytes that may follow \ in the Escape arms of the lexer
EscapeBytes == {Ch.quote, Ch.backslash, Ch.b, Ch.f, Ch.n, Ch.r, Ch.t, Ch.u}

\* C25 as stated: after \ in a string, a byte that is not one of
\* " \ b f n r t u is answered by one error `Unknown escaped char`, and the
\* string sub-state is None again, so that the next byte is an ordinary
\* string byte.
C25_UnknownEscapeReturnsToNone ==
    [][(mode = "lex" /\ LoopIteration /\ locals.state = "String" /\ locals.high = 0
        /\ locals.string_sub_state = "Escape"
        /\ ByteGot \notin EscapeBytes \cup {Ch.LF}) =>
            /\ Len(NewLexOut) = 1
            /\ IsErr(NewLexOut[1]) /\ NewLexOut[1].name = "Unknown escaped char"
            /\ locals'.state = "String"
            /\ locals'.string_sub_state = "None"]_vars

-----------------------------------------------------------------------------
(* Separators *)

\* the last event the adapter took was a ValueSeparator it accepted after an
\* element or a member
SeparatorAccepted ==
    /\ lexOut # <<>>
    /\ IsTok(lexOut[Len(lexOut)], "ValueSeparator")
    /\ Len(adapterTrace) = Len(lexOut)
    /\ adapterTrace[Len(lexOut)] \in {"InArraySep", "InObjectSep"}

\* C26 as stated: an EndArray or EndObject that reaches the adapter directly
\* after an accepted ValueSeparator (a trailing comma) is answered by a parse
\* error and is not forwarded.
C26_TrailingCommaRejected ==
    [][(mode = "parse" /\ SeparatorAccepted /\ Len(NewLexOut) = 1
        /\ (IsTok(NewLexOut[1], "EndArray") \/ IsTok(NewLexOut[1], "EndObject"))) =>
            /\ Len(parOut') = Len(parOut) + 1
            /\ IsErr(parOut'[Len(parOut')])]_vars

-----------------------------------------------------------------------------
(* Termination *)

\* C27: the iteration that gets a pushed-back byte again does not push it
\* back again, whatever the state; lex returns Ok only after the stream
\* is exhausted; and every lex pass returns.
C27_LexTerminates ==
    /\ [][(mode = "lex" /\ LoopIteration /\ bsLog[2] = "unget") => bsLog'[2] = "get"]_vars
    /\ []((mode = "lex" /\ pc = "returned" /\ result = "Ok") => source.ended)
    /\ <>(pc = "returned")

\* lex has returned Ok from a stream in which the byte after a high surrogate
\* was pushed back and read again
C27_Witness ==
    /\ mode = "lex" /\ pc = "returned" /\ result = "Ok" /\ source.ended
    /\ \E k \in 1..Len(lexOut) :
          lexOut[k].name = "Waiting for low surrogate: needs backslash, got"

-----------------------------------------------------------------------------
(* Resynchronisation after an error *)

\* the number read so far lacks a digit, and byte is not that digit (nor the
\* minus sign an exponent may begin with)
NumberBrokenBy(byte) ==
    /\ locals.state = "Number"
    /\ ~IsDigit(byte)
    /\ \/ locals.number_sub_state \in {"NegNumberStart", "NumberFracStart",
                                         "NumberFracExpMinusStart"}
       \/ locals.number_sub_state = "NumberFracExpStart" /\ byte # Ch.minus

\* the next get returns byte again
PushedBack(byte) ==
    /\ ~NeedsRead(byte_source')
    /\ BSGet(byte_source', <<>>).ret = <<byte>>

\* C28 as stated: when a byte shows the number read so far to be malformed,
\* the lexer hands over exactly one error, is back in state None, and has
\* pushed the byte back, so that the byte is scanned again there and is not
\* lost.
C28_MalformedNumberResyncs ==
    [][(mode = "lex" /\ LoopIteration /\ NumberBrokenBy(ByteGot)) =>
            /\ Len(NewLexOut) = 1
            /\ IsErr(NewLexOut[1])
            /\ ~aborted' => locals'.state = "None" /\ PushedBack(ByteGot)]_vars

\* byte is not the next byte of the word being read
WordBrokenBy(byte) ==
    /\ locals.state = "Expect"
    /\ locals.expected_index < Len(locals.expect)
    /\ locals.expect[locals.expected_index + 1] # byte

\* C29 as stated: a byte that is not the next byte of true, false or null
\* makes the lexer hand over exactly one "Expected word" error at the position
\* it has reached with that byte; the byte is not pushed back and the lexer
\* is in state None for the byte after it.
C29_WordMismatchConsumed ==
    [][(mode = "lex" /\ LoopIteration /\ WordBrokenBy(ByteGot)) =>
            /\ Len(NewLexOut) = 1
            /\ IsErr(NewLexOut[1])
            /\ NewLexOut[1].name = "Expected word"
            /\ NewLexOut[1].line = lexer'.line
            /\ NewLexOut[1].column = lexer'.column
            /\ bsLog'[2] = "get"
            /\ ~aborted' => locals'.state = "None"]_vars

\* byte arrives where one of the four hexadecimal digits of a \u escape is
\* expected, and is none
EscapeBrokenBy(byte) ==
    /\ locals.state = "String"
    /\ locals.string_sub_state = "Unicode"
    /\ locals.unicode_index <= 3
    /\ ~IsHexByte(byte)

\* C30 as stated: inside a \u escape a byte that is not a hexadecimal digit
\* makes the lexer hand over exactly one "Unknown hex digit" error; the partial
\* code point and the byte are discarded, nothing is appended, and the lexer
\* is inside the string, outside any escape, where the bytes that follow are
\* appended as ordinary string bytes.
C30_BadHexDigitResumesString ==
    [][(mode = "lex" /\ LoopIteration /\ EscapeBrokenBy(ByteGot)) =>
            /\ Len(NewLexOut) = 1
            /\ IsErr(NewLexOut[1])
            /\ NewLexOut[1].name = "Unknown hex digit"
            /\ bsLog'[2] = "get"
            /\ ~aborted' =>
                    /\ PlainString'
                    /\ locals'.buf = locals.buf
                    /\ locals'.code_point = 0
                    /\ locals'.unicode_index = 0]_vars

-----------------------------------------------------------------------------
(* Surrogate pairs *)

\* the code point a four-byte UTF-8 sequence stands for
FourBytes(b) ==
    (b[1] - 240) * 262144 + (b[2] - 128) * 4096 + (b[3] - 128) * 64 + (b[4] - 128)

\* the bytes the iteration appended to buf
NewBuf == SubSeq(locals'.buf, Len(locals.buf) + 1, Len(locals'.buf))

\* the code point of the escape that byte completes as its fourth digit
EscapeCompletedBy(byte) == locals.code_point * 16 + parse_hex(byte)[1]

\* byte is the last digit of a low surrogate escape that follows a high
\* surrogate escape
PairCompletedBy(byte) ==
    /\ locals.state = "String"
    /\ locals.string_sub_state = "Unicode"
    /\ locals.high # 0
    /\ locals.unicode_index = 3
    /\ IsHexByte(byte)
    /\ 56320 <= EscapeCompletedBy(byte)
    /\ EscapeCompletedBy(byte) <= 57343

\* C31: a pending high surrogate h is in 0xD800..0xDBFF; when the last digit
\* of a low surrogate l in 0xDC00..0xDFFF arrives, the lexer appends the four
\* bytes of the one code point 0x10000 + (h - 0xD800) * 0x400 + (l - 0xDC00),
\* which is in 0x10000..0x10FFFF, hands over no error, and clears the pending
\* high surrogate.
C31_SurrogatePairComposed ==
    /\ [](locals.high # 0 => 55296 <= locals.high /\ locals.high <= 56319)
    /\ [][(mode = "lex" /\ LoopIteration /\ PairCompletedBy(ByteGot)) =>
            /\ locals'.buf = locals.buf \o NewBuf
            /\ Len(NewBuf) = 4
            /\ from_utf8_ok(NewBuf)
            /\ FourBytes(NewBuf) = 65536 + (locals.high - 55296) * 1024
                                         + (EscapeCompletedBy(ByteGot) - 56320)
            /\ 65536 <= FourBytes(NewBuf) /\ FourBytes(NewBuf) <= 1114111
            /\ NewLexOut = <<>>
            /\ locals'.high = 0
            /\ locals'.string_sub_state = "None"]_vars

\* the pairs at both ends of the range have been composed: U+10000 from
\* \uD800\uDC00, or U+10FFFF from \uDBFF\uDFFF
C31_Witness ==
    /\ mode = "lex"
    /\ locals.state = "String"
    /\ locals.high = 0
    /\ locals.buf \in {<<240, 144, 128, 128>>, <<244, 143, 191, 191>>}

-----------------------------------------------------------------------------
(* The sign of a number *)

\* the number tokens the step handed over
NewNumbers ==
    {NewLexOut[k] : k \in {j \in 1..Len(NewLexOut) :
                               /\ NewLexOut[j].kind = "Ok"
                               /\ NewLexOut[j].name \in {"IntValue", "FloatValue"}}}

\* the lexer is reading a number that began with a minus sign
NegativeNumber ==
    /\ locals.state = "Number"
    /\ locals.buf # <<>>
    /\ locals.buf[1] = Ch.minus

\* C32: the token of a number that began with a minus sign is IntValue("0")
\* when the number is -0 and nothing more, and otherwise its text is the text
\* read, which starts with the minus sign (so for -0 followed by a fraction
\* or an exponent).
C32_MinusDroppedOnlyForZero ==
    [][(mode = "lex" /\ NegativeNumber) =>
            \A tok \in NewNumbers :
                IF locals.buf = <<Ch.minus, Ch.d0>>
                THEN tok.name = "IntValue" /\ tok.val = <<Ch.d0>>
                ELSE tok.val = locals.buf /\ tok.val[1] = Ch.minus]_vars

\* -0.5 has been read to its end and handed over with its minus sign
C32_Witness ==
    /\ mode = "lex"
    /\ source.stream = <<Ch.minus, Ch.d0, Ch.dot, Ch.d5>>
    /\ Len(lexOut) >= 2
    /\ lexOut[2].name = "FloatValue"
    /\ lexOut[2].val = <<Ch.minus, Ch.d0, Ch.dot, Ch.d5>>

-----------------------------------------------------------------------------
(* A zero followed by a digit *)

\* the lexer has read 0 or -0 and nothing more of the number
AfterZero ==
    /\ locals.state = "Number"
    /\ locals.number_sub_state = "ZeroNumberStart"

\* C33: a digit that follows 0 or -0 raises no error: the lexer hands over
\* IntValue("0") and nothing else, is back in state None with the digit pushed
\* back, and the digit, scanned again there, starts a new number.
C33_DigitAfterZeroStartsNumber ==
    /\ [][(mode = "lex" /\ LoopIteration /\ AfterZero /\ IsDigit(ByteGot)) =>
            /\ Len(NewLexOut) = 1
            /\ NewLexOut[1].kind = "Ok"
            /\ NewLexOut[1].name = "IntValue"
            /\ NewLexOut[1].val = <<Ch.d0>>
            /\ ~aborted' => locals'.state = "None" /\ PushedBack(ByteGot)]_vars
    /\ [][(mode = "lex" /\ LoopIteration /\ locals.state = "None"
            /\ bsLog[2] = "unget" /\ IsDigit(ByteGot)) =>
            /\ NewLexOut = <<>>
            /\ locals'.state = "Number"
            /\ locals'.buf = <<ByteGot>>]_vars

\* 01 has been read to its end: IntValue("0"), then IntValue("1")
C33_Witness ==
    /\ mode = "lex"
    /\ source.stream = <<Ch.d0, Ch.d1>>
    /\ Len(lexOut) = 4
    /\ lexOut[2].kind = "Ok" /\ lexOut[2].name = "IntValue" /\ lexOut[2].val = <<Ch.d0>>
    /\ lexOut[3].kind = "Ok" /\ lexOut[3].name = "IntValue" /\ lexOut[3].val = <<Ch.d1>>

-----------------------------------------------------------------------------
(* Nesting of the forwarded events *)

\* the containers left open by evs from position k on, open being those open
\* before it, outermost first; ok is FALSE when an End event closes nothing or
\* a container of the other type
RECURSIVE Nesting(_, _, _)
Nesting(evs, k, open) ==
    IF k > Len(evs) THEN [ok |-> TRUE, open |-> open]
    ELSE IF evs[k].kind = "Ok" /\ evs[k].name \in {"BeginObject", "BeginArray"}
    THEN Nesting(evs, k + 1, Append(open, evs[k].name))
    ELSE IF evs[k].kind = "Ok" /\ evs[k].name \in {"EndObject", "EndArray"}
    THEN IF open # <<>>
            /\ open[Len(open)] = (IF evs[k].name = "EndObject" THEN "BeginObject"
                                  ELSE "BeginArray")
         THEN Nesting(evs, k + 1, SubSeq(open, 1, Len(open) - 1))
         ELSE [ok |-> FALSE, open |-> open]
    ELSE Nesting(evs, k + 1, open)

\* C34: whatever the lexer hands over and whatever the consumer answers, each
\* End event the adapter has forwarded closes the innermost container still
\* open, and that container is of its type; the state stack is as deep as
\* the containers the forwarded events leave open.
C34_ForwardedEventsNested ==
    mode \in {"parse", "xml"} =>
        /\ Nesting(parOut, 1, <<>>).ok
        /\ Len(adapter.states) = Len(Nesting(parOut, 1, <<>>).open)

\* an array was open, } was rejected, and ] has closed the array
C34_Witness ==
    /\ mode = "parse"
    /\ Len(parOut) = 4
    /\ parOut[2].kind = "Ok" /\ parOut[2].name = "BeginArray"
    /\ parOut[3].kind = "Err"
    /\ parOut[4].kind = "Ok" /\ parOut[4].name = "EndArray"
    /\ Len(lexOut) = 4 /\ lexOut[3].name = "EndObject"
    /\ adapter.states = <<>>

-----------------------------------------------------------------------------
(* The state stack of the adapter *)

\* the state pushed on entering a container that is itself a value at top
\* level (inside = <<>>) or inside the open containers `inside`
ResumeState(inside) ==
    IF inside = <<>> THEN "None"
    ELSE IF inside[Len(inside)] = "BeginObject" THEN "InObjectSep"
    ELSE "InArraySep"

\* C35: the state stack is empty exactly when the state is Undefined or None,
\* so a pop always finds an element; the state kept for each open container
\* is None at top level, InObjectSep for a member value and InArraySep for an
\* array element, and closing a container resumes the state kept for it.
C35_StackEmptyIffTopLevel ==
    /\ [](mode \in {"parse", "xml"} =>
            /\ adapter.states = <<>> <=> adapter.state \in {"Undefined", "None"}
            /\ \A k \in 1..Len(adapter.states) :
                    adapter.states[k] =
                        ResumeState(SubSeq(Nesting(parOut, 1, <<>>).open, 1, k - 1)))
    /\ [][(mode \in {"parse", "xml"} /\ Len(adapter'.states) < Len(adapter.states)) =>
            /\ adapter.states # <<>>
            /\ adapter'.states = SubSeq(adapter.states, 1, Len(adapter.states) - 1)
            /\ adapter'.state = adapter.states[Len(adapter.states)]]_vars

\* an object that is an array element has been closed: the adapter is in
\* InArraySep again, the array still open
C35_Witness ==
    /\ mode = "parse"
    /\ Len(parOut) = 4
    /\ parOut[3].kind = "Ok" /\ parOut[3].name = "BeginObject"
    /\ parOut[4].kind = "Ok" /\ parOut[4].name = "EndObject"
    /\ adapter.state = "InArraySep"
    /\ adapter.states = <<"None">>

-----------------------------------------------------------------------------
(* A rejected token *)

LexerTokenNames ==
    {"BeginFile", "EndFile", "BeginObject", "EndObject", "BeginArray", "EndArray",
     "NameSeparator", "ValueSeparator", "BooleanValue", "NullValue", "IntValue",
     "FloatValue", "String"}

\* the adapter ad answers the token ev with an "Unexpected state" or an
\* "Unexpected token" parse error
Rejects(ad, ev) ==
    /\ ev.kind = "Ok"
    /\ ParserConsume(ad, ev).out \in
         { <<ParseError("Unexpected state", <<>>, ev.line, ev.column)>>,
           <<ParseError("Unexpected token " \o ev.name, ev.val, ev.line, ev.column)>> }

\* the state of the adapter after the k-th event lex handed over
StateAfter(k) ==
    IF k < Len(adapterTrace) THEN adapterTrace[k + 1] ELSE adapter.state

\* C36: the adapter, as it is now, leaves its state and its state stack as
\* they are when it rejects a token, whichever token comes next; and after
\* each token it has rejected so far it was in the state it was in before.
C36_RejectionKeepsState ==
    mode \in {"parse", "xml"} =>
        /\ \A n \in LexerTokenNames :
              Rejects(adapter, AtPosition(Item("Ok", n, <<>>), lexer)) =>
                  ParserConsume(adapter, AtPosition(Item("Ok", n, <<>>), lexer)).ad
                      = adapter
        /\ \A k \in 1..Len(adapterTrace) :
              Rejects([state |-> adapterTrace[k], states |-> <<"None">>], lexOut[k]) =>
                  StateAfter(k) = adapterTrace[k]

\* a comma was rejected where an array element was expected, and the number
\* after it was taken as that element
C36_Witness ==
    /\ mode = "parse"
    /\ Len(lexOut) = 4
    /\ lexOut[3].name = "ValueSeparator"
    /\ lexOut[4].name = "IntValue"
    /\ adapterTrace = <<"Undefined", "None", "InArray", "InArray">>
    /\ Len(parOut) = 4
    /\ parOut[3].kind = "Err"
    /\ parOut[4].kind = "Ok" /\ parOut[4].name = "IntValue"
    /\ adapter.state = "InArraySep"

-----------------------------------------------------------------------------
(* Values at top level *)

\* the events the step forwarded to the consumer of the adapter
NewParOut == SubSeq(parOut', Len(parOut) + 1, Len(parOut'))

\* ev is a token that is a value, or begins one
BeginsValue(ev) ==
    ev.kind = "Ok" /\ (IsScalarToken(ev) \/ ev.name \in {"BeginObject", "BeginArray"})

\* C37: once BeginFile has been taken the adapter is in state None whenever
\* no container is open, be it before the first value or after any number of
\* complete values; there a scalar, a BeginObject, a BeginArray or EndFile
\* is forwarded as a token, without a parse error; in particular EndFile
\* right after BeginFile.
C37_TopLevelTakesAnyValues ==
    /\ [](mode \in {"parse", "xml"} /\ lexOut # <<>> /\ adapter.states = <<>> =>
            adapter.state = "None")
    /\ [](mode \in {"parse", "xml"} /\ adapter.state = "None" =>
            /\ adapter.states = <<>>
            /\ \A n \in LexerTokenNames :
                  LET ev == AtPosition(Item("Ok", n, <<>>), lexer)
                  IN  BeginsValue(ev) \/ n = "EndFile" =>
                          /\ Len(ParserConsume(adapter, ev).out) = 1
                          /\ ParserConsume(adapter, ev).out[1].kind = "Ok")
    /\ [][(mode \in {"parse", "xml"} /\ adapter.state = "None" /\ NewLexOut # <<>>
            /\ (BeginsValue(NewLexOut[1]) \/ NewLexOut[1].name = "EndFile")) =>
            /\ NewParOut # <<>>
            /\ NewParOut[1].kind = "Ok"
            /\ NewParOut[1].name = (IF NewLexOut[1].name = "String" THEN "StringValue"
                                    ELSE NewLexOut[1].name)]_vars

\* two arrays one after the other at top level, then the end of the file,
\* all forwarded
C37_Witness ==
    /\ mode = "parse"
    /\ Len(parOut) = 6
    /\ \A k \in 1..6 : parOut[k].kind = "Ok"
    /\ parOut[2].name = "BeginArray" /\ parOut[3].name = "EndArray"
    /\ parOut[4].name = "BeginArray" /\ parOut[5].name = "EndArray"
    /\ parOut[6].name = "EndFile"

-----------------------------------------------------------------------------
(* The stacks of the XML sink *)

\* the keys the sink holds when the adapter has forwarded what it has and no
\* consume has returned Err: one for each open container that is not the
\* root, and the key of the member whose value is awaited
KeysHeld ==
    (IF adapter.states = <<>> THEN 0 ELSE Len(adapter.states) - 1)
    + (IF adapter.state \in {"InObjectMember", "InObjectMemberValue"} THEN 1 ELSE 0)

\* C38: in a parse into the XML sink no unwrap fails; as long as no consume
\* has returned Err the sink's states_stack holds the containers the forwarded
\* events leave open and its keys_stack one key for each pop still to come;
\* and when EndFile is forwarded to the sink both stacks are empty.
C38_SinkStacksNeverUnderflow ==
    /\ [](mode = "xml" => result # "Panic")
    /\ [](mode = "xml" /\ result \in {"None", "Ok"} =>
            /\ sink.states_stack = Nesting(parOut, 1, <<>>).open
            /\ Len(sink.keys_stack) = KeysHeld)
    /\ [][(mode = "xml" /\ \E k \in 1..Len(NewParOut) :
                               NewParOut[k].kind = "Ok" /\ NewParOut[k].name = "EndFile") =>
            /\ sink'.states_stack = <<>>
            /\ sink'.keys_stack = <<>>]_vars

\* an object inside an array and its member have been written, every
\* container is closed again, and EndFile has reached the sink
C38_Witness ==
    /\ mode = "xml"
    /\ result = "Ok"
    /\ Len(sink.out) >= 5
    /\ sink.out[Len(sink.out)].op = "write_close"
    /\ \E k \in 1..Len(sink.out) : sink.out[k].op = "write_end"
    /\ sink.states_stack = <<>>
    /\ sink.keys_stack = <<>>

-----------------------------------------------------------------------------
(* The locals of lex *)

\* the bytes the model has a name for
NamedBytes == {Ch[c] : c \in DOMAIN Ch}

\* C39: while lex runs, state Number comes with a number sub-state other than
\* None, so that no byte reaches the panic of the sub-state None; state Expect
\* comes with an expected_index of at most 4, the length of expect; and a
\* high surrogate is pending only in state String.
C39_LexerLocalsConsistent ==
    mode \in {"lex", "parse", "xml"} =>
        /\ locals.state = "Number" => locals.number_sub_state # "None"
        /\ locals.state = "Expect" =>
                locals.expected_index <= 4 /\ Len(locals.expect) = 4
        /\ locals.high # 0 => locals.state = "String"
        /\ \A byte \in NamedBytes : ~LexByte(locals, byte, lexer.ignore_unicode_errs).panic

\* a number has ended and a high surrogate is pending in the string after it
C39_Witness ==
    /\ mode = "lex"
    /\ pc = "loop"
    /\ locals.high # 0
    /\ locals.state = "String"
    /\ locals.number_sub_state = "None"
    /\ Len(lexOut) = 2
    /\ lexOut[2].name = "IntValue"

-----------------------------------------------------------------------------
(* End-of-stream in the byte source *)

\* the step is a call of get made after a get has returned end-of-stream
GetAfterEos ==
    /\ mode = "bs"
    /\ client.eos
    /\ client'.afterEos = client.afterEos + 1

\* C40 as stated: once get has returned end-of-stream, and the reader
\* reporting zero bytes from then on, every later get returns end-of-stream
\* again and hands the caller no byte.
C40_EndOfStreamSticky ==
    [][GetAfterEos => bsLog'[2] = "eos" /\ client'.seq = client.seq]_vars

====
